---------------------------- MODULE Spec2Model ----------------------------
(***************************************************************************)
(* Resolution & delivery pipeline of the Darja translation bot.            *)
(*                                                                         *)
(*   services.py  translate_text      the fallback chain of one request    *)
(*   services.py  DictionaryFallback  the offline phrase table             *)
(*   database.py  Database            users, history, cache, rate_limits,  *)
(*                                     admin_users, packages,               *)
(*                                     user_subscriptions                   *)
(*   setup_admin.py  setup             the first admin                      *)
(*                                                                         *)
(* Texts are tuples of one-character strings, so that lower(), strip()     *)
(* and rstrip() are computed character by character as Python does.        *)
(***************************************************************************)
EXTENDS Integers, Sequences, FiniteSets, TLC

(***************************************************************************)
(* Bounds of the model.                                                    *)
(***************************************************************************)
MaxKeys == 2         \* configured GEMINI_API_KEY* credentials: 0..MaxKeys
MaxUsers == 1        \* user ids 1..MaxUsers
MaxCalls == 1        \* translate_text calls in one behaviour
MaxTime == 6         \* the clock runs over 0..MaxTime ticks
MaxLimit == 2        \* max_requests of the rate check: 1..MaxLimit
MaxWindow == 2       \* window_minutes of the rate check: 1..MaxWindow
MaxChecks == 4       \* check_rate_limit calls in one behaviour
MaxItems == 2        \* items put on the translation queue in one behaviour
MaxRuns == 2         \* update handler runs in one behaviour
MaxHistory == 2      \* history rows of a user in the profile operations
MaxTasks == 2        \* tasks created by start_worker in one behaviour

(***************************************************************************)
(* Program constants.                                                      *)
(***************************************************************************)
\* version_fallback = [DEFAULT_MODEL, "gemini-2.0-flash-exp",
\*                     "gemini-2.5-flash", "gemini-1.5-flash"]
NumVersions == 4
\* time_elapsed = total_seconds() / 60: the clock is read in ticks of 30 s,
\* so that the truncation int(time_elapsed) is a real rounding.
TicksPerMinute == 2

Users == 1..MaxUsers
Dialects == {"standard", "oran"}
Responses == {"r1", "r2"}
NoneVal == "<None>"
EmptyStr == ""

Texts == { <<"n", "o">>, <<" ", "N", "o", "?">>, <<"x">>, <<"t", "e", "?", "!">> }

VARIABLES
    \* configuration (config.py)
    nkeys,          \* len(GEMINI_API_KEYS)
    groq,           \* bool(GROQ_API_KEY)
    is_pg,          \* Database.is_pg
    \* persisted tables (database.py)
    users,          \* user_id -> [dialect, context_mode]
    history,        \* user_id -> number of history rows
    cache,          \* <<normalized text, dialect>> -> [translation, hit_count]
    verified,       \* <<normalized text, dialect>> -> payload
    rate_limits,    \* user_id -> [request_count, window_start]
    \* translate_text in flight
    pc,             \* position in translate_text
    t_text, t_user, \* its arguments
    t_rec,          \* user = await db.get_user(user_id)
    t_hist,         \* history ("none" | "empty" | "rows")
    mi, ki,         \* loop position: model version index, credential index
    api_error,      \* api_error
    attempts,       \* the steps attempted so far in this call, in order
    succeeded,      \* a provider step of this call returned a usable response
    raise_site,     \* the store call whose exception left translate_text
    result,         \* what the call returned (or that it raised)
    calls,          \* translate_text calls started
    cache_io,       \* the cache methods this call has called ("read", "write")
    \* rate limiter
    now,            \* the clock, in ticks
    max_requests, window_minutes,   \* the tier's limits
    rl_pc,          \* caller -> "idle" | "read" : position in check_rate_limit
    rl_user,        \* caller -> user of the call in flight
    rl_row,         \* caller -> the row the call read (or NoRow)
    rl_now,         \* caller -> now = datetime.now() of the call
    rl_ret,         \* caller -> last returned (allowed, remaining, minutes)
    admitted,       \* user -> calls allowed since the window was (re)started
    checks,         \* check_rate_limit calls started
    \* access store (database.py)
    admin_users,        \* the user ids that have a row in admin_users
    user_subscriptions, \* subscription_id -> [user_id, package_id, end_date, is_active]
    sub_seq,            \* subscription ids handed out so far
    today,              \* the clock of the access store, in days
    ac_ret,             \* the last access operation and what it returned
    \* cache operations (database.py)
    cache_ops,          \* get_cached_translation / cache_translation calls made
    cq_ret,             \* the last cache operation and what it returned
    prev,               \* the translate_text call before the one in flight
    \* the translation queue and its worker (services.py), run() (main.py)
    queue,              \* asyncio.Queue: the ids of the waiting items, oldest first
    puts,               \* items put so far; item ids are 1, 2, ...
    processing,         \* TranslationQueue.processing
    worker_task,        \* TranslationQueue.worker_task: "none" or "task"
    w_pc,               \* where the worker task is suspended
    w_item,             \* the item the worker holds, 0 if none
    w_result,           \* result_text of the item in flight
    stats,              \* TranslationQueue.stats
    resolved,           \* per item: translate_text calls made for it by the worker
    acked,              \* per item: task_done() calls made for it
    last,               \* what send_translation_result did for the last item sent
    run_pc,             \* run() of main.py: boot, serving, stopping, stopped
    \* the update handler in progress (handlers.py)
    h_pc,               \* where the handler is suspended, "idle" if none runs
    h_user,             \* update.effective_user.id
    h_kind,             \* text message or voice message
    h_trace,            \* what the checks of this handler run returned, in order
    h_runs,             \* handler runs started
    \* the rows that hang on a users row, and the profile operations
    favorites,          \* favorites table: per user, the saved texts
    pf_ret,             \* the last profile operation: its name and user
    \* the tasks made by the start_worker calls of any caller (services.py)
    loops,              \* per task: where its process_queue loop stands
    created,            \* tasks created so far; worker_task is the last one
    awaiting            \* tasks awaited by the stop_worker calls in progress

cfgVars == <<nkeys, groq, is_pg>>
dbVars == <<users, history, cache, verified>>
ttVars == <<pc, t_text, t_user, t_rec, t_hist, mi, ki, api_error, attempts,
            succeeded, raise_site, result, calls, cache_io>>
rlVars == <<rate_limits, now, max_requests, window_minutes, rl_pc, rl_user,
            rl_row, rl_now, rl_ret, admitted, checks>>
acVars == <<admin_users, user_subscriptions, sub_seq, today, ac_ret>>
ccVars == <<cache_ops, cq_ret, prev>>
qVars == <<queue, puts, processing, worker_task, w_pc, w_item, w_result, stats,
           resolved, acked, last, run_pc>>
hVars == <<h_pc, h_user, h_kind, h_trace, h_runs>>
pfVars == <<favorites, pf_ret>>
wkVars == <<loops, created, awaiting>>
vars == <<cfgVars, dbVars, ttVars, rlVars, acVars, ccVars, qVars, hVars, pfVars,
          wkVars>>

(***************************************************************************)
(* Text normalisation.                                                     *)
(***************************************************************************)
LowerChar(c) == CASE c = "N" -> "n"
                  [] c = "O" -> "o"
                  [] c = "X" -> "x"
                  [] OTHER -> c

\* str.lower()
Lower(s) == [i \in 1..Len(s) |-> LowerChar(s[i])]

RECURSIVE LStrip(_, _)
LStrip(s, c) == IF s # <<>> /\ Head(s) = c THEN LStrip(Tail(s), c) ELSE s

\* str.rstrip(c)
RECURSIVE RStrip(_, _)
RStrip(s, c) ==
    IF s # <<>> /\ s[Len(s)] = c THEN RStrip(SubSeq(s, 1, Len(s) - 1), c) ELSE s

\* str.strip()
Strip(s) == RStrip(LStrip(s, " "), " ")

\* text.lower().strip(): the key of the cache table
CacheKeyUntrimmed(text) == Lower(text)
CacheKey(text) == Strip(Lower(text))

\* DictionaryFallback.normalize
normalize(text) == RStrip(RStrip(RStrip(Strip(Lower(text)), "?"), "!"), ".")

\* a in b, for Python strings
IsSubstr(a, b) ==
    \E i \in 0..(Len(b) - Len(a)) : SubSeq(b, i + 1, i + Len(a)) = a

\* The keys of LOCAL_DICTIONARY, in insertion order (a part of the table).
LOCAL_DICTIONARY == << <<"n", "o">>, <<"t", "e", "a">> >>

\* DictionaryFallback.find_match: the index of the entry, 0 for None
find_match(text) ==
    LET normalized == normalize(text)
        direct == {k \in 1..Len(LOCAL_DICTIONARY) : LOCAL_DICTIONARY[k] = normalized}
        partial == {k \in 1..Len(LOCAL_DICTIONARY) :
                       \/ IsSubstr(LOCAL_DICTIONARY[k], normalized)
                       \/ IsSubstr(normalized, LOCAL_DICTIONARY[k])}
        Min(S) == CHOOSE k \in S : \A j \in S : k <= j
    IN  IF direct # {} THEN Min(direct)
        ELSE IF partial # {} THEN Min(partial)
        ELSE 0


(***************************************************************************)
(* Tables as functions whose domain is the set of rows present.            *)
(***************************************************************************)
EmptyTable == [k \in {} |-> 0]
Put(f, k, v) == [x \in (DOMAIN f) \cup {k} |-> IF x = k THEN v ELSE f[x]]

\* users.dialect DEFAULT 'standard', users.context_mode DEFAULT 1
DefaultUser == [dialect |-> "standard", context_mode |-> TRUE]

(***************************************************************************)
(* Values of translate_text's locals.                                      *)
(***************************************************************************)
NoError == <<"none", "none", 0, 0>>            \* api_error = None
NoResult == [kind |-> "none", value |-> EmptyStr, entry |-> 0, err |-> NoError]
NoRec == [dialect |-> "none", context_mode |-> FALSE]

GeminiStep(m, k) == <<"gemini", m, k>>
GroqStep == <<"groq", 0, 0>>
DictStep == <<"dict", 0, 0>>
\* api_error carries the step whose failure it describes
ErrorOf(kind, step) == <<kind>> \o step

\* not user['context_mode'] or not history
CacheableAlways == TRUE
Cacheable == (~t_rec.context_mode) \/ (t_hist # "rows")
t_key == <<CacheKey(t_text), t_rec.dialect>>

\* Database has no attribute get_verified_translation: the call in
\* translate_text raises AttributeError before any row is read.
get_verified_translation(text, dialect) == "AttributeError"

\* cache_translation: INSERT OR REPLACE (SQLite) resets hit_count to its
\* default, ON CONFLICT DO UPDATE (PostgreSQL) keeps it.
cache_translationMarked(c, key, translation) ==
    Put(c, key, [translation |-> "Cached", hit_count |-> 1])
cache_translation(c, key, translation) ==
    IF key \in DOMAIN c /\ is_pg
    THEN Put(c, key, [translation |-> translation, hit_count |-> c[key].hit_count])
    ELSE Put(c, key, [translation |-> translation, hit_count |-> 1])

\* the loop "for model_ver in version_fallback: for i, key in enumerate(KEYS)"
NextPairRetry(m, k) == <<m, k>>
NextPair(m, k) == IF k < nkeys THEN <<m, k + 1>> ELSE <<m + 1, 1>>

\* where control goes when the provider loops are (or were) skipped
AfterPairs == IF groq THEN "groq" ELSE "dict"
AfterCache == IF nkeys > 0 THEN "gemini" ELSE AfterPairs

\* add_history: INSERT INTO history (user_id, text) VALUES (?, ?)
InsertHistoryTwice(h, u) == [h EXCEPT ![u] = @ + 2]
InsertHistory(h, u) == [h EXCEPT ![u] = @ + 1]

Raise(site) ==
    /\ pc' = "done"
    /\ raise_site' = site
    /\ result' = [NoResult EXCEPT !.kind = "raise"]

Return(kind, value, entry, err) ==
    /\ pc' = "done"
    /\ raise_site' = "none"
    /\ result' = [kind |-> kind, value |-> value, entry |-> entry, err |-> err]

(***************************************************************************)
(* translate_text(text, user_id), one action per awaited phase.            *)
(***************************************************************************)
\* the call itself (made by the queue worker)
TT_Call(text, user) ==
    /\ pc = "idle"
    /\ calls < MaxCalls
    /\ calls' = calls + 1
    /\ pc' = "get_user"
    /\ t_text' = text /\ t_user' = user
    /\ t_rec' = NoRec /\ t_hist' = "none"
    /\ mi' = 1 /\ ki' = 1
    /\ api_error' = NoError
    /\ attempts' = <<>>
    /\ succeeded' = FALSE
    /\ raise_site' = "none"
    /\ result' = NoResult
    /\ cache_io' = {}
    /\ UNCHANGED <<cfgVars, wkVars, pfVars, qVars, hVars, acVars, ccVars, dbVars, rlVars>>

\* user = await db.get_user(user_id)
TT_GetUser ==
    /\ pc = "get_user"
    /\ \E ok \in BOOLEAN :
         IF ~ok
         THEN /\ Raise("get_user")
              /\ UNCHANGED <<users, t_rec>>
         ELSE /\ IF t_user \in DOMAIN users
                 THEN /\ t_rec' = users[t_user]
                      /\ UNCHANGED users
                 ELSE /\ users' = Put(users, t_user, DefaultUser)
                      /\ t_rec' = DefaultUser
              /\ pc' = "get_history"
              /\ UNCHANGED <<raise_site, result>>
    /\ UNCHANGED <<cfgVars, wkVars, pfVars, qVars, hVars, acVars, ccVars, history, cache, verified, rlVars, t_text, t_user,
                   t_hist, mi, ki, api_error, attempts, succeeded, calls, cache_io>>

\* history = await db.get_history(user_id) if user['context_mode'] else None
TT_GetHistory ==
    /\ pc = "get_history"
    /\ IF ~t_rec.context_mode
       THEN /\ t_hist' = "none"
            /\ pc' = "verified"
            /\ UNCHANGED <<raise_site, result>>
       ELSE \E ok \in BOOLEAN :
              IF ~ok
              THEN /\ Raise("get_history")
                   /\ UNCHANGED t_hist
              ELSE /\ t_hist' = IF history[t_user] > 0 THEN "rows" ELSE "empty"
                   /\ pc' = "verified"
                   /\ UNCHANGED <<raise_site, result>>
    /\ UNCHANGED <<cfgVars, wkVars, pfVars, qVars, hVars, acVars, ccVars, dbVars, rlVars, t_text, t_user, t_rec, mi, ki,
                   api_error, attempts, succeeded, calls, cache_io>>

\* step 0: try: verified = await db.get_verified_translation(...) except: log
TT_Verified ==
    /\ pc = "verified"
    /\ LET v == get_verified_translation(t_text, t_rec.dialect)
       IN  IF v \in {"AttributeError", NoneVal}
           THEN /\ pc' = "cache"
                /\ UNCHANGED <<history, raise_site, result>>
           ELSE \E ok \in BOOLEAN :
                  IF ok
                  THEN /\ history' = InsertHistory(history, t_user)
                       /\ Return("verified", v, 0, NoError)
                  ELSE /\ pc' = "cache"
                       /\ UNCHANGED <<history, raise_site, result>>
    /\ UNCHANGED <<cfgVars, wkVars, pfVars, qVars, hVars, acVars, ccVars, users, cache, verified, rlVars, t_text, t_user,
                   t_rec, t_hist, mi, ki, api_error, attempts, succeeded, calls,
                   cache_io>>

\* cache lookup: get_cached_translation, then add_history and return on a hit
TT_Cache ==
    /\ pc = "cache"
    /\ cache_io' = IF Cacheable THEN cache_io \cup {"read"} ELSE cache_io
    /\ IF ~Cacheable
       THEN /\ pc' = AfterCache
            /\ UNCHANGED <<history, cache, raise_site, result>>
       ELSE \E sel \in BOOLEAN, upd \in BOOLEAN, hist \in BOOLEAN :
              IF ~sel
              THEN /\ Raise("get_cached_translation")
                   /\ UNCHANGED <<history, cache>>
              ELSE IF t_key \notin DOMAIN cache
              THEN /\ pc' = AfterCache
                   /\ UNCHANGED <<history, cache, raise_site, result>>
              ELSE IF ~upd
              THEN /\ Raise("get_cached_translation")
                   /\ UNCHANGED <<history, cache>>
              ELSE /\ cache' = [cache EXCEPT ![t_key].hit_count = @ + 1]
                   /\ IF cache[t_key].translation = EmptyStr
                      THEN \* "if cached:" is false for an empty string
                           /\ pc' = AfterCache
                           /\ UNCHANGED <<history, raise_site, result>>
                      ELSE IF ~hist
                      THEN /\ Raise("add_history")
                           /\ UNCHANGED history
                      ELSE /\ history' = InsertHistory(history, t_user)
                           /\ Return("cached", cache[t_key].translation, 0, NoError)
    /\ UNCHANGED <<cfgVars, wkVars, pfVars, qVars, hVars, acVars, ccVars, users, verified, rlVars, t_text, t_user, t_rec,
                   t_hist, mi, ki, api_error, attempts, succeeded, calls>>

\* "except Exception as e: api_error = str(e); continue" of the Gemini loop,
\* and the fall-through after "api_error = 'Safety filter blocked response'":
\* the error is recorded and the loops advance to the next pair.
GeminiExceptPropagates(kind) ==
    /\ Raise("gemini")
    /\ UNCHANGED <<mi, ki, api_error>>
GeminiExcept(kind) ==
    LET np == NextPair(mi, ki)
    IN  /\ api_error' = ErrorOf(kind, GeminiStep(mi, ki))
        /\ mi' = np[1] /\ ki' = np[2]
        /\ pc' = IF np[1] > NumVersions THEN AfterPairs ELSE "gemini"
        /\ UNCHANGED <<raise_site, result>>

\* one pass of the body of the Gemini loops, for the pair (mi, ki)
TT_Gemini ==
    /\ pc = "gemini"
    /\ attempts' = Append(attempts, GeminiStep(mi, ki))
    /\ \E outcome \in {"text", "blocked", "exc"} :
         CASE outcome = "exc" ->
                /\ GeminiExcept("exc")
                /\ UNCHANGED <<history, cache, succeeded, cache_io>>
           [] outcome = "blocked" ->
                /\ GeminiExcept("safety")
                /\ UNCHANGED <<history, cache, succeeded, cache_io>>
           [] outcome = "text" ->
                \E r \in Responses, hist \in BOOLEAN, cok \in BOOLEAN :
                  /\ succeeded' = TRUE
                  /\ IF ~hist
                     THEN \* add_history raised inside the try block
                          /\ GeminiExcept("db")
                          /\ UNCHANGED <<history, cache, cache_io>>
                     ELSE /\ history' = InsertHistory(history, t_user)
                          /\ cache_io' = IF Cacheable THEN cache_io \cup {"write"}
                                         ELSE cache_io
                          /\ cache' = IF Cacheable /\ cok
                                      THEN cache_translation(cache, t_key, r)
                                      ELSE cache
                          /\ Return("provider", r, 0, NoError)
                          /\ UNCHANGED <<mi, ki, api_error>>
    /\ UNCHANGED <<cfgVars, wkVars, pfVars, qVars, hVars, acVars, ccVars, users, verified, rlVars, t_text, t_user, t_rec,
                   t_hist, calls>>

\* the Groq fallback
TT_Groq ==
    /\ pc = "groq"
    /\ attempts' = Append(attempts, GroqStep)
    /\ \E outcome \in {"content", "nochoices", "exc"} :
         CASE outcome = "exc" ->
                /\ api_error' = ErrorOf("exc", GroqStep)
                /\ pc' = "dict"
                /\ UNCHANGED <<history, cache, succeeded, raise_site, result, cache_io>>
           [] outcome = "nochoices" ->
                \* "if response.choices:" is false and nothing is recorded
                /\ pc' = "dict"
                /\ UNCHANGED <<api_error, history, cache, succeeded, raise_site, result,
                               cache_io>>
           [] outcome = "content" ->
                \E c \in Responses \cup {EmptyStr, NoneVal},
                   hist \in BOOLEAN, cok \in BOOLEAN :
                  /\ succeeded' = TRUE
                  /\ IF ~hist
                     THEN /\ api_error' = ErrorOf("db", GroqStep)
                          /\ pc' = "dict"
                          /\ UNCHANGED <<history, cache, raise_site, result, cache_io>>
                     ELSE /\ history' = InsertHistory(history, t_user)
                          /\ cache_io' = IF Cacheable THEN cache_io \cup {"write"}
                                         ELSE cache_io
                          \* translation TEXT NOT NULL: storing None fails, and
                          \* cache_translation swallows the error
                          /\ cache' = IF Cacheable /\ cok /\ c # NoneVal
                                      THEN cache_translation(cache, t_key, c)
                                      ELSE cache
                          /\ Return("provider", c, 0, NoError)
                          /\ UNCHANGED api_error
    /\ UNCHANGED <<cfgVars, wkVars, pfVars, qVars, hVars, acVars, ccVars, users, verified, rlVars, t_text, t_user, t_rec,
                   t_hist, mi, ki, calls>>

\* the offline dictionary, then the terminal failure string
TT_Dict ==
    /\ pc = "dict"
    /\ attempts' = Append(attempts, DictStep)
    /\ LET match == find_match(t_text)
       IN  IF match # 0
           THEN \E hist \in BOOLEAN :
                  IF ~hist
                  THEN /\ Raise("add_history")
                       /\ UNCHANGED history
                  ELSE /\ history' = InsertHistory(history, t_user)
                       /\ Return("offline", EmptyStr, match, NoError)
           ELSE /\ Return("failure", EmptyStr, 0, api_error)
                /\ UNCHANGED history
    /\ UNCHANGED <<cfgVars, wkVars, pfVars, qVars, hVars, acVars, ccVars, users, cache, verified, rlVars, t_text, t_user,
                   t_rec, t_hist, mi, ki, api_error, succeeded, calls, cache_io>>

\* the caller takes the result; the locals of the call are gone
TT_Return ==
    /\ pc = "done"
    /\ pc' = "idle"
    /\ t_text' = <<>> /\ t_user' = 0
    /\ t_rec' = NoRec /\ t_hist' = "none"
    /\ mi' = 1 /\ ki' = 1
    /\ api_error' = NoError
    /\ attempts' = <<>>
    /\ succeeded' = FALSE
    /\ raise_site' = "none"
    /\ result' = NoResult
    /\ cache_io' = {}
    /\ UNCHANGED <<cfgVars, wkVars, pfVars, qVars, hVars, acVars, ccVars, dbVars, rlVars, calls>>


(***************************************************************************)
(* The verified store.  Its rows come from the human approval step; the    *)
(* approval writes one row per (normalized text, dialect).                 *)
(***************************************************************************)
MaxVerified == 1     \* rows approved in one behaviour
VerifiedPayloads == {"v1"}

ApproveVerified(text, dialect, payload) ==
    /\ pc = "idle"
    /\ Cardinality(DOMAIN verified) < MaxVerified
    /\ <<CacheKey(text), dialect>> \notin DOMAIN verified
    /\ verified' = Put(verified, <<CacheKey(text), dialect>>, payload)
    /\ UNCHANGED <<cfgVars, wkVars, pfVars, qVars, hVars, acVars, ccVars, users, history, cache, ttVars, rlVars>>

(***************************************************************************)
(* Initial states.                                                         *)
(***************************************************************************)
NoRow == [request_count |-> 0, window_start |-> <<0, 0>>]   \* fetchone() is None
NoRet == [allowed |-> FALSE, remaining |-> 0, minutes |-> 0, via |-> "none"]
Callers == {1, 2}

TTInit ==
    /\ pc = "idle"
    /\ t_text = <<>> /\ t_user = 0
    /\ t_rec = NoRec /\ t_hist = "none"
    /\ mi = 1 /\ ki = 1
    /\ api_error = NoError
    /\ attempts = <<>>
    /\ succeeded = FALSE
    /\ raise_site = "none"
    /\ result = NoResult
    /\ calls = 0
    /\ cache_io = {}

\* The persisted tables at start: a fresh database, or what earlier runs
\* left for user 1 (rows for other users come from the calls):
\*   a user with context mode off, a history row and a cached translation,
\*   a user with the default settings, a history row and a cached translation,
\*   a user row without history (created by /dialect) next to a cached row.
Row(d, c) == Put(EmptyTable, 1, [dialect |-> d, context_mode |-> c])
Hist(n) == [u \in Users |-> IF u = 1 THEN n ELSE 0]
Cached(d, x) ==
    Put(EmptyTable, <<CacheKey(<<"n", "o">>), d>>, [translation |-> x, hit_count |-> 1])

InitialDb ==
    { [users |-> EmptyTable, history |-> Hist(0), cache |-> EmptyTable],
      [users |-> Row("oran", FALSE), history |-> Hist(1), cache |-> Cached("oran", "r1")],
      [users |-> Row("standard", TRUE), history |-> Hist(1), cache |-> Cached("standard", "r2")],
      [users |-> Row("standard", TRUE), history |-> Hist(0), cache |-> Cached("standard", "r2")] }

DbInit ==
    /\ \E db \in InitialDb :
         /\ users = db.users
         /\ history = db.history
         /\ cache = db.cache
    /\ verified = EmptyTable

RLIdle ==
    /\ rate_limits = EmptyTable
    /\ now = 0
    /\ rl_pc = [c \in Callers |-> "idle"]
    /\ rl_user = [c \in Callers |-> 0]
    /\ rl_row = [c \in Callers |-> NoRow]
    /\ rl_now = [c \in Callers |-> 0]
    /\ rl_ret = [c \in Callers |-> NoRet]
    /\ admitted = [u \in Users |-> 0]
    /\ checks = 0

\* no cache operation yet, no earlier call
NoCacheRet == [op |-> "none", text |-> <<>>, dialect |-> "none", value |-> NoneVal,
               ok |-> FALSE]
NoPrev == [text |-> <<>>, user |-> 0, dialect |-> "none", context_mode |-> FALSE,
           kind |-> "none", value |-> EmptyStr, stored |-> FALSE]
CacheIdle ==
    /\ cache_ops = 0
    /\ cq_ret = NoCacheRet
    /\ prev = NoPrev

\* the queue object after __init__, before run() starts the worker; no
\* update is being handled
Items == 1..MaxItems
NoLast == [item |-> 0, result |-> "none", sent |-> 0, tries |-> 0, voice |-> FALSE,
           logged |-> FALSE, raised |-> FALSE]
QueueIdle ==
    /\ queue = <<>>
    /\ puts = 0
    /\ processing = FALSE
    /\ worker_task = "none"
    /\ w_pc = "none"
    /\ w_item = 0
    /\ w_result = "none"
    /\ stats = [processed |-> 0, failed |-> 0, in_queue |-> 0]
    /\ resolved = [i \in Items |-> 0]
    /\ acked = [i \in Items |-> 0]
    /\ last = NoLast
    /\ run_pc = "boot"
    /\ h_pc = "idle"
    /\ h_user = 0
    /\ h_kind = "none"
    /\ h_trace = <<>>
    /\ h_runs = 0

\* no favorite saved, no profile operation yet
NoProfileRet == [op |-> "none", user |-> 0]
ProfileIdle ==
    /\ favorites = [u \in Users |-> {}]
    /\ pf_ret = NoProfileRet

\* no task created by a start_worker call yet
Tasks == 1..MaxTasks
WorkersIdle ==
    /\ loops = [t \in Tasks |-> "none"]
    /\ created = 0
    /\ awaiting = {}

\* no admin, no subscription, no access operation yet
NoAccessRet == [op |-> "none", user |-> 0, ok |-> FALSE, access |-> "none",
                limit |-> 0, window |-> 0, tier |-> "none"]
AccessIdle ==
    /\ admin_users = {}
    /\ user_subscriptions = EmptyTable
    /\ sub_seq = 0
    /\ today = 0
    /\ ac_ret = NoAccessRet

\* config.py: at least one of GEMINI_API_KEYS and GROQ_API_KEY is set
Init ==
    /\ nkeys \in 0..MaxKeys
    /\ groq \in BOOLEAN
    /\ nkeys > 0 \/ groq
    /\ is_pg \in BOOLEAN
    /\ DbInit
    /\ TTInit
    /\ RLIdle
    /\ AccessIdle
    /\ CacheIdle
    /\ QueueIdle
    /\ ProfileIdle
    /\ WorkersIdle
    /\ max_requests = 1 /\ window_minutes = 1

Resolve == \E text \in Texts, user \in Users : TT_Call(text, user)

Approve ==
    \E text \in Texts, dialect \in Dialects, payload \in VerifiedPayloads :
        ApproveVerified(text, dialect, payload)

Next ==
    \/ Resolve
    \/ TT_GetUser
    \/ TT_GetHistory
    \/ TT_Verified
    \/ TT_Cache
    \/ TT_Gemini
    \/ TT_Groq
    \/ TT_Dict
    \/ TT_Return

Spec == Init /\ [][Next]_vars

\* the resolver together with the approval step of the verified store
NextVerified ==
    \/ Next
    \/ Approve

SpecVerified == Init /\ [][NextVerified]_vars


(***************************************************************************)
(* Properties of translate_text.                                           *)
(***************************************************************************)
Attempted(step) == \E i \in DOMAIN attempts : attempts[i] = step
IndexOf(step) == CHOOSE i \in DOMAIN attempts : attempts[i] = step
Pairs == {GeminiStep(m, k) : m \in 1..NumVersions, k \in 1..nkeys}
ProviderAttempts == {i \in DOMAIN attempts : attempts[i] # DictStep}
LastProviderAttempt ==
    attempts[CHOOSE i \in ProviderAttempts : \A j \in ProviderAttempts : j <= i]
Returned == pc = "done" /\ result.kind # "raise"

\* C1: whenever a verified entry exists for the (text, dialect) of a call,
\* the call returns the verified payload, marked as verified, and no cache
\* or provider step was taken for it.
C1_VerifiedPrecedence ==
    (Returned /\ t_key \in DOMAIN verified)
        => /\ result.kind = "verified"
           /\ result.value = verified[t_key]
           /\ attempts = <<>>

\* C2: strict fallback order, first success wins: the secondary provider is
\* attempted only after every primary pair, the dictionary only after the
\* secondary provider (when one is configured), and once a provider step
\* has succeeded no later step is attempted in that call.
FallbackOrder ==
    /\ Attempted(GroqStep) =>
         \A p \in Pairs : Attempted(p) /\ IndexOf(p) < IndexOf(GroqStep)
    /\ Attempted(DictStep) =>
         /\ \A p \in Pairs : Attempted(p) /\ IndexOf(p) < IndexOf(DictStep)
         /\ groq => (Attempted(GroqStep) /\ IndexOf(GroqStep) < IndexOf(DictStep))
C2_FirstSuccessWins ==
    [][ /\ FallbackOrder'
        /\ succeeded => (attempts' = attempts \/ attempts' = <<>>) ]_vars

\* C3: within one call no (model version, credential) pair is attempted
\* twice, and the pairs are attempted in the order of the cross product.
C3_NoPairRetried ==
    \A i \in DOMAIN attempts :
        attempts[i][1] = "gemini" =>
            /\ \A j \in DOMAIN attempts : attempts[j] = attempts[i] => j = i
            /\ attempts[i] = GeminiStep(((i - 1) \div nkeys) + 1, ((i - 1) % nkeys) + 1)
C3_Witness ==
    /\ pc = "done"
    /\ nkeys = 2
    /\ \A p \in Pairs : Attempted(p)
    /\ api_error[1] = "safety"

\* C4, as stated: translate_text never raises to its caller.
C4_NeverRaises == result.kind # "raise"
\* C4, amended: an exception leaves translate_text only from the user
\* lookup, the history read, the cache read, or the history write of a cache
\* hit or of a dictionary match; no provider failure, and no store failure
\* inside a provider's try block, reaches the caller.
C4_RaisesOnlyFromUnguardedStore ==
    result.kind = "raise" =>
        /\ raise_site \in {"get_user", "get_history", "get_cached_translation",
                           "add_history"}
        /\ raise_site \in {"get_user", "get_history", "get_cached_translation"}
             => attempts = <<>>
        /\ raise_site = "add_history"
             => (attempts = <<>> \/ attempts[Len(attempts)] = DictStep)
C4_Witness ==
    /\ pc = "done"
    /\ result.kind \in {"failure", "offline"}
    /\ api_error[1] = "exc"
    /\ Attempted(GroqStep)

\* C5: every value translate_text returns as a translation is non-empty.
C5_NonEmptyTranslation ==
    (Returned /\ result.kind \in {"verified", "cached", "provider"})
        => result.value \notin {EmptyStr, NoneVal}

\* C6: the terminal failure string is returned only when every primary pair
\* failed, the secondary provider failed or is not configured and the
\* dictionary has no match, and it embeds the error detail of the last
\* failed provider attempt of the call.
C6_FailureEmbedsLastError ==
    (pc = "done" /\ result.kind = "failure") =>
        /\ \A p \in Pairs : Attempted(p)
        /\ groq => Attempted(GroqStep)
        /\ find_match(t_text) = 0
        /\ result.err # NoError
        /\ SubSeq(result.err, 2, 4) = LastProviderAttempt

\* C18: a call made for a user with context mode on and a non-empty history
\* calls neither get_cached_translation nor cache_translation and leaves the
\* cache table as it is, also when a provider answers.
InContext == t_rec.context_mode /\ t_hist = "rows"
C18_NoCacheUnderContext ==
    [][ /\ InContext => cache' = cache
        /\ InContext' => cache_io' = {} ]_vars
C18_Witness ==
    /\ pc = "done"
    /\ result.kind = "provider"
    /\ InContext
    /\ t_key \in DOMAIN cache
    /\ cache[t_key].translation # result.value
    /\ cache[t_key].hit_count = 1

(***************************************************************************)
(* The same request sent twice in a row.                                   *)
(***************************************************************************)
\* the user sends the text of the call that has just ended once more: the
\* worker takes the next item, translate_text(text, user_id) starts anew
Resend ==
    /\ pc = "done"
    /\ prev = NoPrev
    /\ prev' = [text |-> t_text, user |-> t_user, dialect |-> t_rec.dialect,
                context_mode |-> t_rec.context_mode,
                kind |-> result.kind, value |-> result.value,
                stored |-> /\ "write" \in cache_io
                           /\ t_key \in DOMAIN cache
                           /\ cache[t_key].translation = result.value]
    /\ calls' = calls + 1
    /\ pc' = "get_user"
    /\ t_rec' = NoRec /\ t_hist' = "none"
    /\ mi' = 1 /\ ki' = 1
    /\ api_error' = NoError
    /\ attempts' = <<>>
    /\ succeeded' = FALSE
    /\ raise_site' = "none"
    /\ result' = NoResult
    /\ cache_io' = {}
    /\ UNCHANGED <<cfgVars, wkVars, pfVars, qVars, hVars, dbVars, rlVars, acVars, cache_ops, cq_ret, t_text, t_user>>

NextWarm ==
    \/ Next
    \/ Resend

SpecWarm == Init /\ [][NextWarm]_vars

Punctuation == {"?", "!", "."}
RECURSIVE StripTrailing(_)
StripTrailing(s) ==
    IF s # <<>> /\ s[Len(s)] \in Punctuation
    THEN StripTrailing(SubSeq(s, 1, Len(s) - 1))
    ELSE s
Phrase(text) == StripTrailing(Strip(Lower(text)))
ExactKeys(text) ==
    {k \in 1..Len(LOCAL_DICTIONARY) : LOCAL_DICTIONARY[k] = Phrase(text)}
SubstrKeys(text) ==
    {k \in 1..Len(LOCAL_DICTIONARY) :
        \/ IsSubstr(LOCAL_DICTIONARY[k], Phrase(text))
        \/ IsSubstr(Phrase(text), LOCAL_DICTIONARY[k])}
C20_OfflineStep ==
    (pc = "done" /\ Attempted(DictStep) /\ result.kind # "raise") =>
        IF ExactKeys(t_text) # {}
        THEN result.kind = "offline" /\ result.entry \in ExactKeys(t_text)
        ELSE IF SubstrKeys(t_text) # {}
        THEN result.kind = "offline" /\ result.entry \in SubstrKeys(t_text)
        ELSE result.kind = "failure" /\ result.entry = 0


(***************************************************************************)
(* Database.check_rate_limit(user_id, max_requests, window_minutes).       *)
(*                                                                         *)
(* The call awaits the SELECT, takes now = datetime.now(), and then awaits *)
(* at most one INSERT or UPDATE: RL_Read is the first part, RL_Finish the  *)
(* second.  Other coroutines may run between the two.                      *)
(***************************************************************************)
\* now.isoformat() and datetime.fromisoformat(): minutes and the rest
isoformat(t) == <<t \div TicksPerMinute, t % TicksPerMinute>>
fromisoformat(w) == w[1] * TicksPerMinute + w[2]

\* int(x / d) for integers: truncation towards zero
IntTrunc(n, d) == IF n >= 0 THEN n \div d ELSE 0 - ((0 - n) \div d)

\* time_elapsed >= window_minutes, with time_elapsed in minutes
WindowExpired(row, nowv) ==
    nowv - fromisoformat(row.window_start) >= window_minutes * TicksPerMinute

\* request_count >= max_requests
AtLimitOffByOne(row) == row.request_count > max_requests
AtLimit(row) == row.request_count >= max_requests

\* the branch the call takes for the row it read
Branch(row, nowv) ==
    IF row = NoRow THEN "insert"
    ELSE IF WindowExpired(row, nowv) THEN "reset"
    ELSE IF AtLimit(row) THEN "deny"
    ELSE "incr"

\* the row written by "UPDATE ... SET request_count = 1, window_start = ?"
ResetRowKeepsCount(row, nowv) ==
    [request_count |-> row.request_count + 1, window_start |-> isoformat(nowv)]
ResetRow(row, nowv) == [request_count |-> 1, window_start |-> isoformat(nowv)]

\* window_minutes - int(time_elapsed)
MinutesToResetRoundedUp(row, nowv) ==
    window_minutes
      - IntTrunc(nowv - fromisoformat(row.window_start) + TicksPerMinute - 1,
                 TicksPerMinute)
MinutesToReset(row, nowv) ==
    window_minutes - IntTrunc(nowv - fromisoformat(row.window_start), TicksPerMinute)

\* the returned (allowed, remaining, minutes_to_reset)
ReturnOfBeforeIncrement(branch, row, nowv) ==
    CASE branch \in {"insert", "reset"} ->
           [allowed |-> TRUE, remaining |-> max_requests - 1,
            minutes |-> window_minutes, via |-> branch]
      [] branch = "deny" ->
           [allowed |-> FALSE, remaining |-> 0,
            minutes |-> MinutesToReset(row, nowv), via |-> branch]
      [] branch = "incr" ->
           [allowed |-> TRUE, remaining |-> max_requests - row.request_count,
            minutes |-> MinutesToReset(row, nowv), via |-> branch]
ReturnOf(branch, row, nowv) ==
    CASE branch \in {"insert", "reset"} ->
           [allowed |-> TRUE, remaining |-> max_requests - 1,
            minutes |-> window_minutes, via |-> branch]
      [] branch = "deny" ->
           [allowed |-> FALSE, remaining |-> 0,
            minutes |-> MinutesToReset(row, nowv), via |-> branch]
      [] branch = "incr" ->
           [allowed |-> TRUE, remaining |-> max_requests - row.request_count - 1,
            minutes |-> MinutesToReset(row, nowv), via |-> branch]

\* cursor = await self.execute('SELECT ...'); row = await cursor.fetchone();
\* now = datetime.now()
RL_Read(c, u) ==
    /\ rl_pc[c] = "idle"
    /\ checks < MaxChecks
    /\ checks' = checks + 1
    /\ rl_pc' = [rl_pc EXCEPT ![c] = "read"]
    /\ rl_user' = [rl_user EXCEPT ![c] = u]
    /\ rl_row' = [rl_row EXCEPT ![c] =
                     IF u \in DOMAIN rate_limits THEN rate_limits[u] ELSE NoRow]
    /\ rl_now' = [rl_now EXCEPT ![c] = now]
    /\ UNCHANGED <<cfgVars, wkVars, pfVars, qVars, hVars, acVars, ccVars, dbVars, ttVars, rate_limits, now, max_requests,
                   window_minutes, rl_ret, admitted>>

\* the rest of the call: the INSERT or UPDATE for the row read, and the return
RL_Finish(c) ==
    /\ rl_pc[c] = "read"
    /\ rl_pc' = [rl_pc EXCEPT ![c] = "idle"]
    /\ LET u == rl_user[c]
           row == rl_row[c]
           nowv == rl_now[c]
           branch == Branch(row, nowv)
       IN  CASE branch = "insert" /\ u \in DOMAIN rate_limits ->
                  \* rate_limits.user_id is the PRIMARY KEY: the INSERT fails
                  \* and execute() re-raises
                  /\ rl_ret' = [rl_ret EXCEPT ![c] = [NoRet EXCEPT !.via = "raise"]]
                  /\ UNCHANGED <<rate_limits, admitted>>
             [] branch = "insert" /\ u \notin DOMAIN rate_limits ->
                  /\ rate_limits' = Put(rate_limits, u, ResetRow(row, nowv))
                  /\ admitted' = [admitted EXCEPT ![u] = 1]
                  /\ rl_ret' = [rl_ret EXCEPT ![c] = ReturnOf(branch, row, nowv)]
             [] branch = "reset" ->
                  /\ rate_limits' = [rate_limits EXCEPT ![u] = ResetRow(row, nowv)]
                  /\ admitted' = [admitted EXCEPT ![u] =
                        IF rate_limits[u].window_start = isoformat(nowv)
                        THEN @ + 1 ELSE 1]
                  /\ rl_ret' = [rl_ret EXCEPT ![c] = ReturnOf(branch, row, nowv)]
             [] branch = "deny" ->
                  /\ rl_ret' = [rl_ret EXCEPT ![c] = ReturnOf(branch, row, nowv)]
                  /\ UNCHANGED <<rate_limits, admitted>>
             [] branch = "incr" ->
                  \* SET request_count = request_count + 1, on the stored row
                  /\ rate_limits' = [rate_limits EXCEPT ![u].request_count = @ + 1]
                  /\ admitted' = [admitted EXCEPT ![u] = @ + 1]
                  /\ rl_ret' = [rl_ret EXCEPT ![c] = ReturnOf(branch, row, nowv)]
    /\ UNCHANGED <<cfgVars, wkVars, pfVars, qVars, hVars, acVars, ccVars, dbVars, ttVars, now, max_requests, window_minutes,
                   rl_user, rl_row, rl_now, checks>>

\* time passes
Tick ==
    /\ now < MaxTime
    /\ now' = now + 1
    /\ UNCHANGED <<cfgVars, wkVars, pfVars, qVars, hVars, acVars, ccVars, dbVars, ttVars, rate_limits, max_requests,
                   window_minutes, rl_pc, rl_user, rl_row, rl_now, rl_ret,
                   admitted, checks>>

InitRate ==
    /\ nkeys = 1 /\ groq = TRUE /\ is_pg = FALSE
    /\ users = EmptyTable
    /\ history = Hist(0)
    /\ cache = EmptyTable
    /\ verified = EmptyTable
    /\ TTInit
    /\ RLIdle
    /\ AccessIdle
    /\ CacheIdle
    /\ QueueIdle
    /\ ProfileIdle
    /\ WorkersIdle
    /\ max_requests \in 1..MaxLimit
    /\ window_minutes \in 1..MaxWindow

\* The update handlers run one at a time (the Application dispatches updates
\* sequentially): a check starts only when no other check is in flight.
CheckSeq == \E c \in Callers, u \in Users :
    /\ \A d \in Callers : rl_pc[d] = "idle"
    /\ RL_Read(c, u)

\* Two checks in flight at once.
CheckConc == \E c \in Callers, u \in Users : RL_Read(c, u)

Finish == \E c \in Callers : RL_Finish(c)

NextRate ==
    \/ CheckSeq
    \/ Finish
    \/ Tick

SpecRate == InitRate /\ [][NextRate]_vars

NextRateConc ==
    \/ CheckConc
    \/ Finish
    \/ Tick

SpecRateConc == InitRate /\ [][NextRateConc]_vars


(***************************************************************************)
(* Properties of check_rate_limit.                                         *)
(***************************************************************************)
\* caller c completes its call in this step
Completes(c) == rl_pc[c] = "read" /\ rl_pc'[c] = "idle"
\* ticks between the stored window start the call read and the call's now
ElapsedTicks(c) == rl_now[c] - fromisoformat(rl_row[c].window_start)
LiveWindow(c) ==
    rl_row[c] # NoRow /\ ElapsedTicks(c) < window_minutes * TicksPerMinute
ExpiredWindow(c) ==
    rl_row[c] # NoRow /\ ElapsedTicks(c) >= window_minutes * TicksPerMinute

\* C7: a check made when the stored window has expired allows the request,
\* sets request_count to 1 and window_start to the call's now, whatever the
\* stored request_count was.
C7_WindowReset ==
    [][ \A c \in Callers :
          (Completes(c) /\ ExpiredWindow(c)) =>
              /\ rl_ret'[c].allowed
              /\ rate_limits'[rl_user[c]] =
                   [request_count |-> 1, window_start |-> isoformat(rl_now[c])] ]_vars
C7_Witness ==
    \E c \in Callers :
        /\ rl_pc[c] = "idle"
        /\ rl_ret[c].via = "reset"
        /\ max_requests = 2
        /\ rl_row[c].request_count = max_requests
        /\ rate_limits[rl_user[c]].request_count = 1

\* C8: a check made when request_count has reached max_requests and the
\* window is live is denied, with remaining = 0 and a positive
\* minutes_to_reset.
C8_Denial ==
    [][ \A c \in Callers :
          (Completes(c) /\ LiveWindow(c) /\ rl_row[c].request_count >= max_requests) =>
              /\ ~rl_ret'[c].allowed
              /\ rl_ret'[c].remaining = 0
              /\ rl_ret'[c].minutes > 0 ]_vars
C8_Witness ==
    \E c \in Callers :
        /\ rl_pc[c] = "idle"
        /\ rl_ret[c].via = "deny"
        /\ window_minutes = 2
        /\ rl_ret[c].minutes = 1
        /\ ElapsedTicks(c) = 2 * TicksPerMinute - 1

\* C9: for a fixed max_requests >= 1 the stored request_count never exceeds
\* max_requests, no more than max_requests calls are allowed within one
\* window, and the first request of a user creates a row with
\* request_count = 1.
C9_RateBound ==
    [][ /\ \A u \in DOMAIN rate_limits' :
              /\ rate_limits'[u].request_count >= 1
              /\ rate_limits'[u].request_count <= max_requests
              /\ admitted'[u] <= max_requests
        /\ \A u \in (DOMAIN rate_limits') \ (DOMAIN rate_limits) :
              rate_limits'[u].request_count = 1 ]_vars
C9_Witness ==
    \E c \in Callers :
        /\ rl_pc[c] = "idle"
        /\ rl_ret[c].via = "deny"
        /\ max_requests = 2
        /\ rate_limits[rl_user[c]].request_count = 2
        /\ admitted[rl_user[c]] = 2

\* C10: interleaved checks for one user behave as some sequential order of
\* them: no insert fails, the stored count equals the number of calls
\* allowed in the window (no update is lost), and neither exceeds
\* max_requests.
C10_AtomicCheck ==
    /\ \A c \in Callers : rl_ret[c].via # "raise"
    /\ \A u \in DOMAIN rate_limits :
          /\ rate_limits[u].request_count = admitted[u]
          /\ rate_limits[u].request_count <= max_requests


(***************************************************************************)
(* The access store: admin_users, packages, user_subscriptions.            *)
(*                                                                         *)
(*   database.py  is_user_allowed, get_user_limits, add_admin,             *)
(*                grant_access, revoke_access                              *)
(*   handlers.py  grant_command, revoke_command, whitelist_command, which  *)
(*                all return early unless check_admin finds the caller in  *)
(*                admin_users                                              *)
(*   setup_admin.py  setup, which creates the first admin                  *)
(***************************************************************************)
MaxSubs == 2         \* subscription rows inserted in one behaviour
MaxDays == 1         \* the access clock runs over 0..MaxDays days

Accounts == {1, 2}

\* packages_data, the rows that _create_tables seeds
packages ==
    [p \in 1..4 |->
        CASE p = 1 -> [name |-> "Free", translations_limit |-> 14, window_minutes |-> 60]
          [] p = 2 -> [name |-> "Basic", translations_limit |-> 50, window_minutes |-> 60]
          [] p = 3 -> [name |-> "Pro", translations_limit |-> 200, window_minutes |-> 60]
          [] p = 4 -> [name |-> "Unlimited", translations_limit |-> 999999,
                       window_minutes |-> 60]]

\* the arguments of /grant: a package id (5 is no row of packages) and a
\* number of days
GrantPackages == {1, 2, 5}
GrantDurations == {1, 1001}

\* end_date = None if duration_days > 1000 else now + duration_days * 86400
NoEnd == -1
end_date_of(duration_days) ==
    IF duration_days > 1000 THEN NoEnd ELSE today + duration_days

\* datetime('now', '+100 years') of setup_admin.py, in days
HundredYears == 36500

\* s.user_id = ? AND s.is_active = 1 AND (s.end_date IS NULL OR s.end_date > now),
\* over the JOIN with packages
ValidSubsThroughEndDay(u) ==
    {s \in DOMAIN user_subscriptions :
        /\ user_subscriptions[s].user_id = u
        /\ user_subscriptions[s].package_id \in DOMAIN packages
        /\ user_subscriptions[s].is_active
        /\ \/ user_subscriptions[s].end_date = NoEnd
           \/ user_subscriptions[s].end_date >= today}
ValidSubs(u) ==
    {s \in DOMAIN user_subscriptions :
        /\ user_subscriptions[s].user_id = u
        /\ user_subscriptions[s].package_id \in DOMAIN packages
        /\ user_subscriptions[s].is_active
        /\ \/ user_subscriptions[s].end_date = NoEnd
           \/ user_subscriptions[s].end_date > today}

PackageOf(s) == packages[user_subscriptions[s].package_id]

\* Database.is_user_allowed: the (allowed, access_type) pairs it can return;
\* the subscription query has no ORDER BY, fetchone() takes any matching row
is_user_allowedOpen(u) ==
    IF u \in admin_users THEN {<<TRUE, "admin">>}
    ELSE IF ValidSubs(u) # {} THEN {<<TRUE, PackageOf(s).name>> : s \in ValidSubs(u)}
    ELSE {<<TRUE, "free">>}
is_user_allowed(u) ==
    IF u \in admin_users THEN {<<TRUE, "admin">>}
    ELSE IF ValidSubs(u) # {} THEN {<<TRUE, PackageOf(s).name>> : s \in ValidSubs(u)}
    ELSE IF Cardinality(admin_users) > 0 THEN {<<FALSE, NoneVal>>}
    ELSE {<<TRUE, "free">>}

\* Database.get_user_limits: ORDER BY p.translations_limit DESC LIMIT 1, then
\* the admin row, then the free defaults
get_user_limitsLowest(u) ==
    IF ValidSubs(u) # {}
    THEN LET top == CHOOSE s \in ValidSubs(u) :
                        \A t \in ValidSubs(u) :
                            PackageOf(s).translations_limit <= PackageOf(t).translations_limit
         IN  [limit |-> PackageOf(top).translations_limit,
              window |-> PackageOf(top).window_minutes,
              tier |-> PackageOf(top).name]
    ELSE IF u \in admin_users
    THEN [limit |-> 999999, window |-> 60, tier |-> "admin"]
    ELSE [limit |-> 14, window |-> 60, tier |-> "free"]
get_user_limits(u) ==
    IF ValidSubs(u) # {}
    THEN LET top == CHOOSE s \in ValidSubs(u) :
                        \A t \in ValidSubs(u) :
                            PackageOf(s).translations_limit >= PackageOf(t).translations_limit
         IN  [limit |-> PackageOf(top).translations_limit,
              window |-> PackageOf(top).window_minutes,
              tier |-> PackageOf(top).name]
    ELSE IF u \in admin_users
    THEN [limit |-> 999999, window |-> 60, tier |-> "admin"]
    ELSE [limit |-> 14, window |-> 60, tier |-> "free"]

\* the FOREIGN KEYs of user_subscriptions, enforced by the bot's connection
ForeignKeysHold(u, p) == u \in DOMAIN users /\ p \in DOMAIN packages

InsertSubscription(u, p, end) ==
    /\ sub_seq' = sub_seq + 1
    /\ user_subscriptions' =
         Put(user_subscriptions, sub_seq + 1,
             [user_id |-> u, package_id |-> p, end_date |-> end, is_active |-> TRUE])

AccessRet(op, u, ok) == [NoAccessRet EXCEPT !.op = op, !.user = u, !.ok = ok]

\* handle_message up to the rate check: is_user_allowed, the early return of
\* a user who is not allowed, then get_user_limits
HandleAccess(u) ==
    /\ \E r \in is_user_allowed(u) :
         ac_ret' = IF r[1]
                   THEN [op |-> "check", user |-> u, ok |-> TRUE, access |-> r[2],
                         limit |-> get_user_limits(u).limit,
                         window |-> get_user_limits(u).window,
                         tier |-> get_user_limits(u).tier]
                   ELSE [AccessRet("check", u, FALSE) EXCEPT !.access = r[2]]
    /\ UNCHANGED <<cfgVars, wkVars, pfVars, qVars, hVars, dbVars, ttVars, rlVars, ccVars, admin_users,
                   user_subscriptions, sub_seq, today>>

\* /grant <user_id> [package_id] [duration_days], run by an admin
grant_access(u, package_id, duration_days) ==
    /\ admin_users # {}
    /\ sub_seq < MaxSubs
    /\ \E ok \in BOOLEAN :
         IF ok /\ ForeignKeysHold(u, package_id)
         THEN /\ InsertSubscription(u, package_id, end_date_of(duration_days))
              /\ ac_ret' = AccessRet("grant", u, TRUE)
         ELSE /\ ac_ret' = AccessRet("grant", u, FALSE)
              /\ UNCHANGED <<user_subscriptions, sub_seq>>
    /\ UNCHANGED <<cfgVars, wkVars, pfVars, qVars, hVars, dbVars, ttVars, rlVars, ccVars, admin_users, today>>

\* UPDATE user_subscriptions SET is_active = 0 WHERE user_id = ?
DeactivateDeletesRows(u) ==
    [s \in {t \in DOMAIN user_subscriptions : user_subscriptions[t].user_id # u} |->
        user_subscriptions[s]]
Deactivate(u) ==
    [s \in DOMAIN user_subscriptions |->
        IF user_subscriptions[s].user_id = u
        THEN [user_subscriptions[s] EXCEPT !.is_active = FALSE]
        ELSE user_subscriptions[s]]

\* /revoke <user_id>, run by an admin
revoke_access(u) ==
    /\ admin_users # {}
    /\ \E ok \in BOOLEAN :
         IF ok
         THEN /\ user_subscriptions' = Deactivate(u)
              /\ ac_ret' = AccessRet("revoke", u, TRUE)
         ELSE /\ ac_ret' = AccessRet("revoke", u, FALSE)
              /\ UNCHANGED user_subscriptions
    /\ UNCHANGED <<cfgVars, wkVars, pfVars, qVars, hVars, dbVars, ttVars, rlVars, ccVars, admin_users, sub_seq, today>>

\* /whitelist add <user_id>, run by an admin: Database.add_admin
add_admin(u) ==
    /\ admin_users # {}
    /\ \E ok \in BOOLEAN :
         /\ admin_users' = IF ok THEN admin_users \cup {u} ELSE admin_users
         /\ ac_ret' = AccessRet("add_admin", u, ok)
    /\ UNCHANGED <<cfgVars, wkVars, pfVars, qVars, hVars, dbVars, ttVars, rlVars, ccVars, user_subscriptions, sub_seq,
                   today>>

\* setup_admin.py: the operator becomes an admin and gets the Unlimited
\* package for a hundred years.  On PostgreSQL the subscription's foreign
\* key is checked and a failure rolls the whole transaction back; the
\* script's SQLite connection does not enforce foreign keys.
setup(u) ==
    /\ sub_seq < MaxSubs
    /\ IF is_pg /\ ~ForeignKeysHold(u, 4)
       THEN /\ ac_ret' = AccessRet("setup", u, FALSE)
            /\ UNCHANGED <<admin_users, user_subscriptions, sub_seq>>
       ELSE /\ admin_users' = admin_users \cup {u}
            /\ InsertSubscription(u, 4, today + HundredYears)
            /\ ac_ret' = AccessRet("setup", u, TRUE)
    /\ UNCHANGED <<cfgVars, wkVars, pfVars, qVars, hVars, dbVars, ttVars, rlVars, ccVars, today>>

\* a day passes
DayPasses ==
    /\ today < MaxDays
    /\ today' = today + 1
    /\ UNCHANGED <<cfgVars, wkVars, pfVars, qVars, hVars, dbVars, ttVars, rlVars, ccVars, admin_users,
                   user_subscriptions, sub_seq, ac_ret>>

\* the users that have written to the bot have a row in users
UserRows(S) == [u \in S |-> DefaultUser]

InitAccess ==
    /\ nkeys = 1 /\ groq = TRUE
    /\ is_pg \in BOOLEAN
    /\ \E S \in {{1}, Accounts} : users = UserRows(S)
    /\ history = Hist(0)
    /\ cache = EmptyTable
    /\ verified = EmptyTable
    /\ TTInit
    /\ RLIdle
    /\ AccessIdle
    /\ CacheIdle
    /\ QueueIdle
    /\ ProfileIdle
    /\ WorkersIdle
    /\ max_requests = 1 /\ window_minutes = 1

AccessCheck == \E u \in Accounts : HandleAccess(u)
Grant ==
    \E u \in Accounts, p \in GrantPackages, d \in GrantDurations : grant_access(u, p, d)
Revoke == \E u \in Accounts : revoke_access(u)
WhitelistAdd == \E u \in Accounts : add_admin(u)
Setup == \E u \in Accounts : setup(u)

NextAccess ==
    \/ AccessCheck
    \/ Grant
    \/ Revoke
    \/ WhitelistAdd
    \/ Setup
    \/ DayPasses

SpecAccess == InitAccess /\ [][NextAccess]_vars


(***************************************************************************)
(* Properties of the access store.                                         *)
(***************************************************************************)
\* the subscription rows of u that are active and not expired
ActiveUnexpired(u) ==
    {s \in DOMAIN user_subscriptions :
        /\ user_subscriptions[s].user_id = u
        /\ user_subscriptions[s].is_active
        /\ user_subscriptions[s].end_date # NoEnd => user_subscriptions[s].end_date > today}
RowsOf(u) == {s \in DOMAIN user_subscriptions : user_subscriptions[s].user_id = u}
LimitOf(s) == packages[user_subscriptions[s].package_id].translations_limit

\* C11: in every state in which admin_users has a row, is_user_allowed
\* returns allowed = false for every user who is not an admin and has no
\* active, unexpired subscription row.
C11_AdmissionLockout ==
    admin_users # {} =>
        \A u \in Accounts :
            (u \notin admin_users /\ ActiveUnexpired(u) = {}) =>
                \A r \in is_user_allowed(u) : r[1] = FALSE
C11_Witness ==
    /\ ac_ret.op = "check" /\ ~ac_ret.ok
    /\ admin_users # {}
    /\ ac_ret.user \notin admin_users
    /\ RowsOf(ac_ret.user) # {}
    /\ ActiveUnexpired(ac_ret.user) = {}

\* C12: is_user_allowed follows the policy in order: (a) an admin is
\* allowed with tier admin; (b) else a user with an active, unexpired
\* subscription row is allowed with the name of the package of such a row;
\* (c) else, when admin_users is not empty, the user is denied; (d) else the
\* user is allowed with tier free.
C12_AccessPolicy ==
    \A u \in Accounts :
        LET R == is_user_allowed(u)
        IN  /\ R # {}
            /\ u \in admin_users => R = {<<TRUE, "admin">>}
            /\ (u \notin admin_users /\ ActiveUnexpired(u) # {}) =>
                 \A r \in R :
                    /\ r[1] = TRUE
                    /\ \E s \in ActiveUnexpired(u) :
                          r[2] = packages[user_subscriptions[s].package_id].name
            /\ (u \notin admin_users /\ ActiveUnexpired(u) = {} /\ admin_users # {}) =>
                 R = {<<FALSE, NoneVal>>}
            /\ (u \notin admin_users /\ ActiveUnexpired(u) = {} /\ admin_users = {}) =>
                 R = {<<TRUE, "free">>}
C12_Witness ==
    /\ ac_ret.op = "check" /\ ac_ret.ok
    /\ ac_ret.access = "Basic"
    /\ ac_ret.user \notin admin_users
    /\ \E s \in RowsOf(ac_ret.user) :
          /\ user_subscriptions[s].end_date = today + 1
          /\ user_subscriptions[s].is_active

\* C13: for a user in admin_users the limits that handle_message passes to
\* the rate check are the admin tier with the unlimited limit, whatever
\* subscription rows the user has.
C13_AdminUnlimited ==
    (ac_ret.op = "check" /\ ac_ret.ok /\ ac_ret.user \in admin_users) =>
        /\ ac_ret.limit = 999999
        /\ ac_ret.tier = "admin"

\* C14: when a user has active, unexpired subscription rows, get_user_limits
\* returns the limit, window and name of the package of one of them whose
\* translation limit is the highest; inactive and expired rows are not
\* chosen.
C14_HighestLimitWins ==
    \A u \in Accounts :
        ActiveUnexpired(u) # {} =>
            \E s \in ActiveUnexpired(u) :
                /\ \A t \in ActiveUnexpired(u) : LimitOf(s) >= LimitOf(t)
                /\ get_user_limits(u) =
                     [limit |-> LimitOf(s),
                      window |-> packages[user_subscriptions[s].package_id].window_minutes,
                      tier |-> packages[user_subscriptions[s].package_id].name]
C14_Witness ==
    /\ ac_ret.op = "check" /\ ac_ret.ok
    /\ \E s \in ActiveUnexpired(ac_ret.user), t \in ActiveUnexpired(ac_ret.user) :
          /\ LimitOf(s) > LimitOf(t)
          /\ ac_ret.limit = LimitOf(s)

\* C15: a successful revoke_access(u) sets every subscription row of u
\* inactive, deletes no row and leaves the rows of the other users as they
\* are; after it no row of u gives access; and no step sets an inactive row
\* active again.
RevokeStep(u) == ac_ret' = AccessRet("revoke", u, TRUE) /\ today' = today
C15_SoftDelete ==
    [][ /\ \A u \in Accounts :
              RevokeStep(u) =>
                  /\ DOMAIN user_subscriptions' = DOMAIN user_subscriptions
                  /\ \A s \in DOMAIN user_subscriptions :
                        user_subscriptions'[s] =
                            IF user_subscriptions[s].user_id = u
                            THEN [user_subscriptions[s] EXCEPT !.is_active = FALSE]
                            ELSE user_subscriptions[s]
                  /\ ActiveUnexpired(u)' = {}
                  /\ u \notin admin_users' =>
                        \A r \in is_user_allowed(u)' : r[1] = FALSE
        /\ \A s \in DOMAIN user_subscriptions :
              ~user_subscriptions[s].is_active =>
                  (s \in DOMAIN user_subscriptions' => ~user_subscriptions'[s].is_active)
      ]_vars
C15_Witness ==
    /\ \E u \in Accounts :
          /\ ac_ret = AccessRet("revoke", u, TRUE)
          /\ \E s \in RowsOf(u) : user_subscriptions[s].end_date = NoEnd
          /\ \A s \in RowsOf(u) : ~user_subscriptions[s].is_active
    /\ \E s \in DOMAIN user_subscriptions : user_subscriptions[s].is_active


(***************************************************************************)
(* The cache table through its two methods.                                *)
(*                                                                         *)
(*   database.py  get_cached_translation(text, dialect)                    *)
(*                cache_translation(text, dialect, translation)            *)
(***************************************************************************)
MaxCacheOps == 3     \* cache method calls in one behaviour

\* two spellings of one phrase, and another phrase
CacheTexts == { <<"n", "o">>, <<" ", "N", "o", " ">>, <<"x">> }
\* what callers pass as translation: provider texts, and the None that a
\* Groq message can carry
Translations == Responses \cup {NoneVal}

\* what get_cached_translation(text, dialect) returns for the table c:
\* row[0], or None when there is no row
cached_value(c, text, dialect) ==
    IF <<CacheKey(text), dialect>> \in DOMAIN c
    THEN c[<<CacheKey(text), dialect>>].translation
    ELSE NoneVal

CacheRet(op, text, dialect, value, ok) ==
    [op |-> op, text |-> text, dialect |-> dialect, value |-> value, ok |-> ok]

\* get_cached_translation: the SELECT, and for a row the UPDATE of hit_count
get_cached_translation(text, dialect) ==
    /\ cache_ops < MaxCacheOps
    /\ cache_ops' = cache_ops + 1
    /\ LET key == <<CacheKey(text), dialect>>
       IN  /\ cache' = IF key \in DOMAIN cache
                       THEN [cache EXCEPT ![key].hit_count = @ + 1]
                       ELSE cache
           /\ cq_ret' = CacheRet("lookup", text, dialect,
                                 cached_value(cache, text, dialect), TRUE)
    /\ UNCHANGED <<cfgVars, wkVars, pfVars, qVars, hVars, users, history, verified, ttVars, rlVars, acVars, prev>>

\* cache_translation: the upsert inside try/except; a failed statement (a
\* None for the NOT NULL column translation, or a database error) is logged
\* and the table stays as it was
CacheStore(text, dialect, translation) ==
    /\ cache_ops < MaxCacheOps
    /\ cache_ops' = cache_ops + 1
    /\ \E executed \in BOOLEAN :
         LET ok == executed /\ translation # NoneVal
         IN  /\ cache' = IF ok
                         THEN cache_translation(cache, <<CacheKey(text), dialect>>,
                                                translation)
                         ELSE cache
             /\ cq_ret' = CacheRet("store", text, dialect, translation, ok)
    /\ UNCHANGED <<cfgVars, wkVars, pfVars, qVars, hVars, users, history, verified, ttVars, rlVars, acVars, prev>>

InitCache ==
    /\ nkeys = 1 /\ groq = TRUE
    /\ is_pg \in BOOLEAN
    /\ users = EmptyTable
    /\ history = Hist(0)
    /\ cache = EmptyTable
    /\ verified = EmptyTable
    /\ TTInit
    /\ RLIdle
    /\ AccessIdle
    /\ CacheIdle
    /\ QueueIdle
    /\ ProfileIdle
    /\ WorkersIdle
    /\ max_requests = 1 /\ window_minutes = 1

Lookup == \E text \in CacheTexts, dialect \in Dialects :
    get_cached_translation(text, dialect)
Store == \E text \in CacheTexts, dialect \in Dialects, x \in Translations :
    CacheStore(text, dialect, x)

NextCache ==
    \/ Lookup
    \/ Store

SpecCache == InitCache /\ [][NextCache]_vars

(***************************************************************************)
(* Properties of the cache table.                                          *)
(***************************************************************************)
\* lowercase + trim of both texts agree, and so do the dialects
SameKey(t1, d1, t2, d2) == Strip(Lower(t1)) = Strip(Lower(t2)) /\ d1 = d2
StoreStep == cq_ret'.op = "store" /\ cq_ret'.ok /\ cache_ops' # cache_ops
LookupStep == cq_ret'.op = "lookup" /\ cache_ops' # cache_ops

\* C16: after an executed cache_translation(T, D, X) a lookup of (T', D')
\* returns X when the lowercase, trimmed texts are equal and D' = D, and
\* returns what it returned before for every other (T', D'); a lookup changes
\* no lookup result; every row's text is in lowercase, trimmed form, so there
\* is one row per (normalized text, dialect).
C16_CacheRoundTrip ==
    [][ /\ StoreStep =>
              \A t \in CacheTexts, d \in Dialects :
                  cached_value(cache', t, d) =
                      IF SameKey(t, d, cq_ret'.text, cq_ret'.dialect)
                      THEN cq_ret'.value
                      ELSE cached_value(cache, t, d)
        /\ LookupStep =>
              \A t \in CacheTexts, d \in Dialects :
                  cached_value(cache', t, d) = cached_value(cache, t, d)
        /\ \A k \in DOMAIN cache' : k[1] = Strip(Lower(k[1])) ]_vars
C16_Witness ==
    /\ cq_ret.op = "lookup"
    /\ cq_ret.text = <<"n", "o">>
    /\ cq_ret.value = "r2"
    /\ cache_ops = 3
    /\ Cardinality(DOMAIN cache) = 1

\* C17: the hit counter of a row never decreases: a lookup that finds the
\* row adds exactly one and leaves the translation as it is, and a store to
\* an existing key does not lower the counter.
C17_HitCountMonotone ==
    [][ \A k \in DOMAIN cache :
          /\ k \in DOMAIN cache'
          /\ cache'[k].hit_count >= cache[k].hit_count
          /\ (LookupStep /\ k = <<Strip(Lower(cq_ret'.text)), cq_ret'.dialect>>) =>
                /\ cache'[k].hit_count = cache[k].hit_count + 1
                /\ cache'[k].translation = cache[k].translation ]_vars


(***************************************************************************)
(* What translate_text writes to the cache table.                          *)
(***************************************************************************)
TranslationsOf(c) == [k \in DOMAIN c |-> c[k].translation]

\* C21: a step that adds a cache row or changes the translation of one is
\* a provider step (Gemini or Groq) of the call in progress, it writes the
\* row of that call's key, and the stored value is the provider's response
\* that the call returns; a cache hit, a dictionary answer and the failure
\* string leave every stored translation as it was.
C21_CacheProvenance ==
    [][ /\ (TranslationsOf(cache') # TranslationsOf(cache)) =>
              /\ pc \in {"gemini", "groq"}
              /\ result'.kind = "provider"
              /\ \A k \in DOMAIN cache' :
                    (k \notin DOMAIN cache
                        \/ cache'[k].translation # cache[k].translation) =>
                          /\ k = t_key
                          /\ cache'[k].translation = result'.value
                          /\ cache'[k].translation \in Responses \cup {EmptyStr}
        /\ (pc # "done" /\ result'.kind \in {"cached", "offline", "failure", "verified"}) =>
              TranslationsOf(cache') = TranslationsOf(cache) ]_vars
C21_Witness ==
    /\ pc = "done"
    /\ result.kind = "provider"
    /\ "write" \in cache_io
    /\ t_key \in DOMAIN cache
    /\ cache[t_key].translation = result.value
    /\ cache[t_key].hit_count = 1


(***************************************************************************)
(* The translation queue (services.py, class TranslationQueue) and run()   *)
(* of main.py, which starts its worker once and stops it once.  The worker *)
(* is one asyncio task; an action below runs it from one await to the      *)
(* next.  translate_text is seen here from the worker's side: a call that  *)
(* first reads the store and tries Gemini with blocking calls, then awaits *)
(* Groq, and ends with a text, an empty text, None, the failure string or  *)
(* an exception (see the resolver above).                                  *)
(***************************************************************************)
\* result_text: "text" is a non-empty text of up to 4000 characters, "long"
\* one of 4001 to 8000, "empty" is '', "none" is None, "failure" is the
\* string "❌ ... Failed" of translate_text, "error" the worker's own
\* "❌ Error processing your translation. Please try again."
ErrorTexts == {"failure", "error"}

\* split_message(None): len(None) raises TypeError
SplitRaises(kind) == kind = "none"
\* len(split_message(result_text)) with the limit of 4000 characters
split_message(kind) ==
    CASE kind = "empty" -> 0
      [] kind = "long" -> 2
      [] OTHER -> 1

\* result_text.startswith("❌")
StartsWithCross(kind) == kind \in ErrorTexts

\* the sink: for each chunk, whether the Markdown call and the plain call
\* of edit_message_text / send_message go through
Sinks(n) == [1..n -> [md : BOOLEAN, plain : BOOLEAN]]
\* generate_tts_audio and send_voice: a voice message is sent, or
\* generate_tts_audio logs "TTS Error" and returns None, or get_user, open or
\* send_voice raises
TtsOutcomes(kind) ==
    IF StartsWithCross(kind) \/ SplitRaises(kind) THEN {"skipped"}
    ELSE {"sent", "tts_error", "raise"}

Max(a, b) == IF a >= b THEN a ELSE b

\* one turn of "for i, chunk in enumerate(chunks)": the Markdown call, and
\* in its except branch a warning and the same call without parse_mode
TryChunk(s) ==
    IF s.md THEN [ok |-> TRUE, tries |-> 1, warned |-> FALSE]
    ELSE IF s.plain THEN [ok |-> TRUE, tries |-> 2, warned |-> TRUE]
    ELSE [ok |-> FALSE, tries |-> 2, warned |-> TRUE]

\* the loop over the chunks; the call in the except branch is not guarded,
\* an exception there leaves the loop
RECURSIVE SendChunks(_, _, _)
SendChunks(i, n, sink) ==
    IF i > n THEN [sent |-> 0, tries |-> 0, warned |-> FALSE, failed |-> FALSE]
    ELSE LET t == TryChunk(sink[i])
         IN  IF t.ok
             THEN LET r == SendChunks(i + 1, n, sink)
                  IN  [sent |-> r.sent + 1, tries |-> Max(t.tries, r.tries),
                       warned |-> t.warned \/ r.warned, failed |-> r.failed]
             ELSE [sent |-> 0, tries |-> t.tries, warned |-> t.warned,
                   failed |-> TRUE]

\* the TTS block: entered unless the text starts with the cross mark; its
\* own except logs "TTS Send Error", generate_tts_audio logs "TTS Error"
TtsSilent(kind, tts) ==
    IF StartsWithCross(kind) THEN [voice |-> FALSE, logged |-> FALSE]
    ELSE [voice |-> tts = "sent", logged |-> FALSE]
TtsBlock(kind, tts) ==
    IF StartsWithCross(kind) THEN [voice |-> FALSE, logged |-> FALSE]
    ELSE [voice |-> tts = "sent", logged |-> tts # "sent"]

\* the outer "except Exception as e: logger.error(...)": nothing leaves
\* send_translation_result
OuterExceptReraises(d) == [d EXCEPT !.logged = TRUE, !.raised = TRUE]
OuterExcept(d) == [d EXCEPT !.logged = TRUE, !.raised = FALSE]

\* send_translation_result(ptb_app, task, result_text): what it did
send_translation_result(item, kind, sink, tts) ==
    LET none == [NoLast EXCEPT !.item = item, !.result = kind]
    IN  IF SplitRaises(kind)
        THEN OuterExcept(none)
        ELSE LET c == SendChunks(1, split_message(kind), sink)
                 d == [none EXCEPT !.sent = c.sent, !.tries = c.tries,
                                   !.logged = c.warned]
             IN  IF c.failed
                 THEN OuterExcept(d)
                 ELSE [d EXCEPT !.voice = TtsBlock(kind, tts).voice,
                                !.logged = @ \/ TtsBlock(kind, tts).logged]


\* "while self.processing:" and, when it holds, the entry into
\* asyncio.wait_for(self.queue.get(), timeout=1.0)
LoopTopUntilEmpty == IF processing /\ queue # <<>> THEN "wait" ELSE "exited"
LoopTop == IF processing THEN "wait" ELSE "exited"

\* the first run of the task made by start_worker
W_Begin ==
    /\ w_pc = "start"
    /\ w_pc' = LoopTop
    /\ UNCHANGED <<cfgVars, wkVars, pfVars, dbVars, ttVars, rlVars, acVars, ccVars, hVars, queue, puts,
                   processing, worker_task, w_item, w_result, stats, resolved, acked,
                   last, run_pc>>

\* wait_for(..., timeout=1.0): the timeout expires when no item arrives
TimedOutNever == FALSE
TimedOut == queue = <<>>

\* asyncio.TimeoutError after one second without an item: continue
W_Timeout ==
    /\ w_pc = "wait"
    /\ TimedOut
    /\ w_pc' = LoopTop
    /\ UNCHANGED <<cfgVars, wkVars, pfVars, dbVars, ttVars, rlVars, acVars, ccVars, hVars, queue, puts,
                   processing, worker_task, w_item, w_result, stats, resolved, acked,
                   last, run_pc>>

\* what queue.get() leaves in the queue
GetLeavesLossy(q) == IF Len(q) > 1 THEN Tail(Tail(q)) ELSE Tail(q)
GetLeaves(q) == Tail(q)

\* task = await ...queue.get(); stats['in_queue'] = qsize(); then the call
\* of translate_text, up to its first await
W_Get ==
    /\ w_pc = "wait"
    /\ queue # <<>>
    /\ w_item' = Head(queue)
    /\ queue' = GetLeaves(queue)
    /\ stats' = [stats EXCEPT !.in_queue = Len(queue')]
    /\ resolved' = [resolved EXCEPT ![Head(queue)] = @ + 1]
    /\ w_pc' = "resolve"
    /\ UNCHANGED <<cfgVars, wkVars, pfVars, dbVars, ttVars, rlVars, acVars, ccVars, hVars, puts,
                   processing, worker_task, w_result, acked, last, run_pc>>

\* where the worker goes with the outcome of translate_text: the except
\* branch counts a failure and sends its own error text
AfterRaiseExits == "exited"
AfterRaise == "send"
Resolved(o) ==
    IF o = "raise"
    THEN /\ stats' = [stats EXCEPT !.failed = @ + 1]
         /\ w_result' = "error"
         /\ w_pc' = AfterRaise
    ELSE /\ w_result' = o
         /\ w_pc' = "send"
         /\ UNCHANGED stats

\* translate_text before the Groq call: the store reads (which may raise),
\* a cache hit, the blocking Gemini calls, and without Groq the dictionary
\* and the failure string
FirstStage == {"raise", "text", "long"} \cup (IF groq THEN {"groq"} ELSE {"failure"})
\* the Groq call returns: content (a text, '', or None), or the dictionary,
\* the failure string, or an exception of add_history
GroqStage == {"text", "long", "empty", "none", "failure", "raise"}

W_Resolve ==
    /\ w_pc = "resolve"
    /\ \E o \in FirstStage :
         IF o = "groq"
         THEN /\ w_pc' = "groq"
              /\ UNCHANGED <<stats, w_result>>
         ELSE Resolved(o)
    /\ UNCHANGED <<cfgVars, wkVars, pfVars, dbVars, ttVars, rlVars, acVars, ccVars, hVars, queue, puts,
                   processing, worker_task, w_item, resolved, acked, last, run_pc>>

W_Groq ==
    /\ w_pc = "groq"
    /\ \E o \in GroqStage : Resolved(o)
    /\ UNCHANGED <<cfgVars, wkVars, pfVars, dbVars, ttVars, rlVars, acVars, ccVars, hVars, queue, puts,
                   processing, worker_task, w_item, resolved, acked, last, run_pc>>

\* "finally: self.queue.task_done()", on the try path and the except path
task_doneOnTryPath(a, i, kind) == IF kind = "error" THEN a ELSE [a EXCEPT ![i] = @ + 1]
task_done(a, i, kind) == [a EXCEPT ![i] = @ + 1]

\* "self.stats['processed'] += 1" after send_translation_result returned on
\* the try path; the except path does not count here
CountProcessedIfDelivered(s, kind, d) ==
    IF kind # "error" /\ ~d.raised /\ d.sent > 0
    THEN [s EXCEPT !.processed = @ + 1]
    ELSE s
CountProcessed(s, kind, d) ==
    IF kind # "error" /\ ~d.raised
    THEN [s EXCEPT !.processed = @ + 1]
    ELSE s

\* await self.send_translation_result(...), then up to the next await:
\* stats['processed'] += 1 on the try path, task_done() in the finally, and
\* the loop test.  If the call raised on the try path the except branch
\* would count a failure and send the error text.
W_Send ==
    /\ w_pc = "send"
    /\ \E sink \in Sinks(split_message(w_result)), tts \in TtsOutcomes(w_result) :
         LET d == send_translation_result(w_item, w_result, sink, tts)
         IN  /\ last' = d
             /\ IF d.raised /\ w_result # "error"
                THEN /\ stats' = [stats EXCEPT !.failed = @ + 1]
                     /\ w_result' = "error"
                     /\ w_pc' = "send"
                     /\ UNCHANGED <<w_item, acked>>
                ELSE /\ stats' = CountProcessed(stats, w_result, d)
                     /\ acked' = task_done(acked, w_item, w_result)
                     /\ w_item' = 0
                     /\ w_result' = "none"
                     /\ w_pc' = LoopTop
    /\ UNCHANGED <<cfgVars, wkVars, pfVars, dbVars, ttVars, rlVars, acVars, ccVars, hVars, queue, puts,
                   processing, worker_task, resolved, run_pc>>

\* run(): await translation_queue.start_worker(ptb_app)
start_worker ==
    /\ run_pc = "boot"
    /\ run_pc' = "serving"
    /\ IF ~processing
       THEN /\ processing' = TRUE
            /\ worker_task' = "task"
            /\ w_pc' = "start"
       ELSE UNCHANGED <<processing, worker_task, w_pc>>
    /\ UNCHANGED <<cfgVars, wkVars, pfVars, dbVars, ttVars, rlVars, acVars, ccVars, hVars, queue, puts,
                   w_item, w_result, stats, resolved, acked, last>>

\* run(), finally: stop_worker() up to "await self.worker_task"
stop_worker ==
    /\ run_pc = "serving"
    /\ processing' = FALSE
    /\ run_pc' = IF worker_task # "none" THEN "stopping" ELSE "stopped"
    /\ UNCHANGED <<cfgVars, wkVars, pfVars, dbVars, ttVars, rlVars, acVars, ccVars, hVars, queue, puts,
                   worker_task, w_pc, w_item, w_result, stats, resolved, acked, last>>

\* the awaited task is done: stop_worker returns
AwaitedPending == TRUE
Awaited == w_pc = "exited"
stop_worker_returns ==
    /\ run_pc = "stopping"
    /\ Awaited
    /\ run_pc' = "stopped"
    /\ UNCHANGED <<cfgVars, wkVars, pfVars, dbVars, ttVars, rlVars, acVars, ccVars, hVars, queue, puts,
                   processing, worker_task, w_pc, w_item, w_result, stats, resolved,
                   acked, last>>


(***************************************************************************)
(* The update handlers handle_message and handle_voice (handlers.py).  The *)
(* Application is built without concurrent_updates, so one handler runs at *)
(* a time; it runs beside the worker task, and is suspended at its awaits. *)
(* max_requests and window_minutes stand for limits['limit'] and           *)
(* limits['window'] of the user's tier.                                    *)
(***************************************************************************)
HandlerKinds == {"text", "voice", "correction"}

\* an update arrives; a text sent while feedback_state is
\* 'waiting_for_correction' goes to handle_feedback and nothing else happens
H_Begin ==
    /\ run_pc \in {"serving", "stopping"}
    /\ h_pc = "idle"
    /\ h_runs < MaxRuns
    /\ \E u \in Accounts, k \in HandlerKinds :
         /\ (k = "text") => puts < MaxItems
         /\ h_user' = u
         /\ h_kind' = k
         /\ h_pc' = IF k = "correction" THEN "idle" ELSE "access"
    /\ h_trace' = <<>>
    /\ h_runs' = h_runs + 1
    /\ UNCHANGED <<cfgVars, wkVars, pfVars, dbVars, ttVars, rlVars, acVars, ccVars, qVars>>

\* "if not is_allowed: ... return"
AfterAccessIgnored(allowed) == "rate"
AfterAccess(allowed) == IF allowed THEN "rate" ELSE "idle"

\* is_allowed, access_type = await db.is_user_allowed(user_id); the query
\* may raise, which ends the handler run
H_Access ==
    /\ h_pc = "access"
    /\ \E r \in is_user_allowed(h_user) \cup {<<FALSE, "raise">>} :
         /\ h_trace' = Append(h_trace,
                <<IF r[2] = "raise" THEN "raise"
                  ELSE IF r[1] THEN "allowed" ELSE "denied", h_user>>)
         /\ h_pc' = IF r[2] = "raise" THEN "idle" ELSE AfterAccess(r[1])
    /\ UNCHANGED <<cfgVars, wkVars, pfVars, dbVars, ttVars, rlVars, acVars, ccVars, qVars, h_user, h_kind,
                   h_runs>>

\* "if not allowed: ... return"
AfterRate(allowed) ==
    IF ~allowed THEN "idle" ELSE IF h_kind = "text" THEN "enqueue" ELSE "voice"

\* the rate_limits table after check_rate_limit took the branch: the INSERT,
\* one of the two UPDATEs, or (request_count >= max_requests) no statement
RowsAfterCountsDenied(branch, u, row, nowv) ==
    CASE branch = "insert" -> Put(rate_limits, u, ResetRow(row, nowv))
      [] branch = "reset" -> [rate_limits EXCEPT ![u] = ResetRow(row, nowv)]
      [] OTHER -> [rate_limits EXCEPT ![u].request_count = @ + 1]
RowsAfter(branch, u, row, nowv) ==
    CASE branch = "insert" -> Put(rate_limits, u, ResetRow(row, nowv))
      [] branch = "reset" -> [rate_limits EXCEPT ![u] = ResetRow(row, nowv)]
      [] branch = "incr" -> [rate_limits EXCEPT ![u].request_count = @ + 1]
      [] OTHER -> rate_limits

\* limits = await db.get_user_limits(user_id);
\* allowed, remaining, reset = await db.check_rate_limit(user_id, ...)
H_Rate ==
    /\ h_pc = "rate"
    /\ LET u == h_user
           row == IF u \in DOMAIN rate_limits THEN rate_limits[u] ELSE NoRow
           branch == Branch(row, now)
           ret == ReturnOf(branch, row, now)
       IN  \E ok \in BOOLEAN :
             IF ~ok
             THEN /\ h_trace' = Append(h_trace, <<"raise", u>>)
                  /\ h_pc' = "idle"
                  /\ UNCHANGED rate_limits
             ELSE /\ rate_limits' = RowsAfter(branch, u, row, now)
                  /\ h_trace' = Append(h_trace,
                         <<IF ret.allowed THEN "admitted" ELSE "limited", u>>)
                  /\ h_pc' = AfterRate(ret.allowed)
    /\ UNCHANGED <<cfgVars, wkVars, pfVars, dbVars, ttVars, acVars, ccVars, qVars, h_user, h_kind, h_runs,
                   now, max_requests, window_minutes, rl_pc, rl_user, rl_row, rl_now,
                   rl_ret, admitted, checks>>

\* await self.queue.put({...}): asyncio.Queue appends at the tail
QueuePutFront(q, i) == <<i>> \o q
QueuePut(q, i) == Append(q, i)

\* send_action, the status reply (either may raise), then
\* await translation_queue.add_translation(...): queue.put and the stats
H_Enqueue ==
    /\ h_pc = "enqueue"
    /\ h_pc' = "idle"
    /\ \E ok \in BOOLEAN :
         IF ok /\ puts < MaxItems
         THEN /\ queue' = QueuePut(queue, puts + 1)
              /\ puts' = puts + 1
              /\ stats' = [stats EXCEPT !.in_queue = Len(queue')]
              /\ h_trace' = Append(h_trace, <<"queued", h_user>>)
         ELSE /\ h_trace' = Append(h_trace, <<"raise", h_user>>)
              /\ UNCHANGED <<queue, puts, stats>>
    /\ UNCHANGED <<cfgVars, wkVars, pfVars, dbVars, ttVars, rlVars, acVars, ccVars, h_user, h_kind, h_runs,
                   processing, worker_task, w_pc, w_item, w_result, resolved, acked,
                   last, run_pc>>

\* handle_voice after the checks: the status reply, the download and ffmpeg,
\* then translate_voice: get_user and the blocking Gemini calls, up to the
\* Groq Whisper call; an exception ends in the except branch of handle_voice
H_Voice ==
    /\ h_pc = "voice"
    /\ \E o \in {"raise", "text"} \cup (IF groq THEN {"whisper"} ELSE {"failure"}) :
         h_pc' = IF o = "whisper" THEN "whisper" ELSE "idle"
    /\ UNCHANGED <<cfgVars, wkVars, pfVars, dbVars, ttVars, rlVars, acVars, ccVars, qVars, h_user, h_kind,
                   h_trace, h_runs>>

\* await client.audio.transcriptions.create(...) returns: with a text
\* translate_voice calls translate_text itself, otherwise it returns the
\* failure string
H_Whisper ==
    /\ h_pc = "whisper"
    /\ \E o \in {"text", "failure"} :
         h_pc' = IF o = "text" THEN "voice_resolve" ELSE "idle"
    /\ UNCHANGED <<cfgVars, wkVars, pfVars, dbVars, ttVars, rlVars, acVars, ccVars, qVars, h_user, h_kind,
                   h_trace, h_runs>>

\* translate_text called by translate_voice, before its Groq call
H_VoiceResolve ==
    /\ h_pc = "voice_resolve"
    /\ \E o \in FirstStage :
         h_pc' = IF o = "groq" THEN "voice_groq" ELSE "idle"
    /\ UNCHANGED <<cfgVars, wkVars, pfVars, dbVars, ttVars, rlVars, acVars, ccVars, qVars, h_user, h_kind,
                   h_trace, h_runs>>

\* its Groq call returns
H_VoiceGroq ==
    /\ h_pc = "voice_groq"
    /\ h_pc' = "idle"
    /\ UNCHANGED <<cfgVars, wkVars, pfVars, dbVars, ttVars, rlVars, acVars, ccVars, qVars, h_user, h_kind,
                   h_trace, h_runs>>

\* Before run(): the access tables as the admin commands left them (user 2
\* is the admin of a private bot, or nobody is and the bot is open), and a
\* tier limit of one request per window.
InitQueue ==
    /\ nkeys = 1 /\ groq \in BOOLEAN /\ is_pg = FALSE
    /\ users = UserRows(Accounts)
    /\ history = Hist(0)
    /\ cache = EmptyTable
    /\ verified = EmptyTable
    /\ TTInit
    /\ RLIdle
    /\ CacheIdle
    /\ QueueIdle
    /\ ProfileIdle
    /\ WorkersIdle
    /\ admin_users \in {{}, {2}}
    /\ user_subscriptions = EmptyTable
    /\ sub_seq = 0
    /\ today = 0
    /\ ac_ret = NoAccessRet
    /\ max_requests = 1 /\ window_minutes = 1

Worker == W_Begin \/ W_Timeout \/ W_Get \/ W_Resolve \/ W_Groq \/ W_Send

NextQueue ==
    \/ start_worker
    \/ stop_worker
    \/ stop_worker_returns
    \/ W_Begin
    \/ W_Timeout
    \/ W_Get
    \/ W_Resolve
    \/ W_Groq
    \/ W_Send
    \/ H_Begin
    \/ H_Access
    \/ H_Rate
    \/ H_Enqueue
    \/ H_Voice
    \/ H_Whisper
    \/ H_VoiceResolve
    \/ H_VoiceGroq

SpecQueue == InitQueue /\ [][NextQueue]_vars

\* The event loop runs every task that is ready: the worker task and the
\* task that awaits it in stop_worker are not starved.
SpecQueueFair ==
    /\ SpecQueue
    /\ WF_vars(Worker)
    /\ WF_vars(stop_worker_returns)


(***************************************************************************)
(* Properties of the queue worker.                                         *)
(***************************************************************************)
InQueue(i) == \E n \in 1..Len(queue) : queue[n] = i
TimesQueued(i) == Cardinality({n \in 1..Len(queue) : queue[n] = i})

\* a step of the worker out of "await self.send_translation_result(...)"
SendStep == w_pc = "send" /\ (acked' # acked \/ last' # last \/ w_result' # w_result)

\* C22: every item put on the queue is in exactly one place: waiting in the
\* queue (once, not yet passed to translate_text), held by the worker after
\* one call of translate_text for it, or finished after exactly that one
\* call; nothing is resolved twice and nothing leaves the queue unresolved.
C22_ExactlyOnce ==
    \A i \in Items :
        /\ resolved[i] <= 1
        /\ acked[i] <= resolved[i]
        /\ IF i > puts
           THEN ~InQueue(i) /\ resolved[i] = 0 /\ w_item # i
           ELSE \/ TimesQueued(i) = 1 /\ resolved[i] = 0 /\ w_item # i
                \/ ~InQueue(i) /\ resolved[i] = 1 /\ acked[i] = 0 /\ w_item = i
                \/ ~InQueue(i) /\ resolved[i] = 1 /\ acked[i] = 1 /\ w_item # i
C22_Witness ==
    /\ puts = 2
    /\ queue = <<>>
    /\ acked[1] = 1 /\ acked[2] = 1
    /\ stats.processed + stats.failed = 2
    /\ processing

\* C23: when translate_text raises, the worker counts a failure and goes on
\* to send its error text for the same item; an item whose result is the
\* failure string or that error text is handed to send_translation_result
\* with that text (which reaches the chat unless the sink refuses it, and
\* then the refusal is logged), task_done is called once for it, and it is
\* neither back in the queue nor resolved again.
C23_NoRequeue ==
    [][ /\ (stats'.failed = stats.failed + 1 /\ w_pc \in {"resolve", "groq"}) =>
              /\ w_pc' = "send"
              /\ w_result' = "error"
              /\ w_item' = w_item
              /\ queue' = queue
        /\ (SendStep /\ w_result \in ErrorTexts) =>
              /\ last'.item = w_item
              /\ last'.result = w_result
              /\ last'.sent = 1 \/ (last'.sent = 0 /\ last'.logged)
              /\ acked[w_item] = 0 /\ acked'[w_item] = 1
              /\ resolved'[w_item] = 1
              /\ queue' = queue /\ ~InQueue(w_item)
              /\ w_item' = 0 ]_vars
C23_Witness ==
    /\ last.item = 1
    /\ last.result = "error"
    /\ last.sent = 1
    /\ stats.failed = 1
    /\ acked[1] = 1
    /\ resolved[1] = 1
    /\ w_pc = "wait"

\* C24: the worker loop ends only at its loop test with the flag cleared,
\* never because translate_text raised or the sink failed; and under fair
\* scheduling an item in the queue of a running worker is passed to
\* translate_text, whatever happened to the items before it, unless the
\* worker is stopped first.
C24_IndependentItems ==
    /\ [][ (w_pc # "exited" /\ w_pc' = "exited") => (~processing /\ w_item' = 0) ]_vars
    /\ \A i \in Items :
          (InQueue(i) /\ run_pc = "serving") ~> (resolved[i] = 1 \/ run_pc # "serving")
C24_Witness ==
    /\ stats.failed = 1
    /\ stats.processed = 1
    /\ last.item = 2
    /\ last.result = "text"
    /\ acked[1] = 1 /\ acked[2] = 1
    /\ processing
    /\ w_pc = "wait"

\* C25: the worker leaves its loop only with the flag cleared and no item
\* in its hands: a step that takes it out of the loop from an item in flight
\* is the step that finishes the delivery and acknowledges that item; while
\* it holds an item and after, no other step exits; and stop_worker has
\* returned only when the loop has exited.
C25_CooperativeStop ==
    [][ /\ (w_pc # "exited" /\ w_pc' = "exited") =>
              /\ ~processing
              /\ w_item' = 0
              /\ (w_item # 0) =>
                    /\ w_pc = "send"
                    /\ last'.item = w_item
                    /\ acked'[w_item] = 1
        /\ (w_item' # 0) => w_pc' \in {"resolve", "groq", "send"}
        /\ (run_pc' = "stopped") => w_pc' = "exited" ]_vars
C25_Witness ==
    /\ run_pc = "stopped"
    /\ w_pc = "exited"
    /\ acked[1] = 1
    /\ queue = <<2>>
    /\ resolved[2] = 0

\* C26: under fair scheduling a stop_worker that waits for the worker task
\* returns, with the loop exited; and once the loop has exited nothing is
\* taken from the queue or resolved any more.
C26_StopTerminates ==
    /\ (run_pc = "stopping") ~> (run_pc = "stopped" /\ w_pc = "exited")
    /\ [][ (w_pc = "exited") =>
              /\ w_pc' = "exited"
              /\ resolved' = resolved
              /\ \/ queue' = queue
                 \/ queue' = Append(queue, puts') ]_vars
C26_Witness ==
    /\ run_pc = "stopped"
    /\ w_pc = "exited"
    /\ queue = <<1>>
    /\ resolved[1] = 0
    /\ ~processing


\* C27: the queue grows only by the enqueue step of a text handler run
\* whose checks returned, in this order and for the user of the update,
\* allowed from is_user_allowed and allowed from check_rate_limit; a run
\* whose access check or rate check said no ends there.
C27_AdmissionBeforeEnqueue ==
    [][ /\ (queue' # queue /\ Len(queue') >= Len(queue)) =>
              /\ h_pc = "enqueue"
              /\ h_kind = "text"
              /\ h_trace = << <<"allowed", h_user>>, <<"admitted", h_user>> >>
              /\ queue' = Append(queue, puts')
        /\ (h_trace' # h_trace /\ h_trace' # <<>>
              /\ h_trace'[Len(h_trace')][1] \in {"denied", "limited", "raise"}) =>
              /\ h_pc' = "idle"
              /\ queue' = queue ]_vars
C27_Witness ==
    /\ h_trace = << <<"allowed", 2>>, <<"admitted", 2>>, <<"queued", 2>> >>
    /\ admin_users = {2}
    /\ queue = <<1>>
    /\ 2 \in DOMAIN rate_limits
    /\ h_runs = 2

\* C28: the worker and a handler are never both waiting for the answer of
\* a provider.
WorkerAtProvider == w_pc = "groq"
HandlerAtProvider == h_pc \in {"whisper", "voice_groq"}
C28_ProvidersSerialized == ~(WorkerAtProvider /\ HandlerAtProvider)

\* C29 as stated: after a refused send no further send of that text is
\* attempted, nothing is raised to the worker and the item is not queued
\* again.
C29_NoSecondAttempt ==
    (last.item # 0) =>
        /\ last.tries <= 1
        /\ ~last.raised
        /\ ~InQueue(last.item)

\* C29: a chunk is sent at most twice, the second time without Markdown
\* and only after the first send failed and was logged; when the second
\* send fails too the failure is logged, no later chunk and no audio is
\* sent, nothing is raised to the worker, and the item is acknowledged
\* once and not queued again.
C29_OnePlainResend ==
    (last.item # 0) =>
        /\ last.tries <= 2
        /\ (last.tries = 2) => last.logged
        /\ (~SplitRaises(last.result) /\ last.sent < split_message(last.result)) =>
              /\ last.tries = 2
              /\ last.logged
              /\ ~last.voice
        /\ ~last.raised
        /\ ~InQueue(last.item)
        /\ acked[last.item] = 1
        /\ resolved[last.item] = 1
C29_Witness ==
    /\ last.item = 1
    /\ last.result = "long"
    /\ last.sent = 1
    /\ last.tries = 2
    /\ last.logged
    /\ ~last.voice
    /\ acked[1] = 1
    /\ w_pc = "wait"

\* C30: whatever translate_text returned or raised, the item that went
\* through send_translation_result has a message in its chat (a text chunk
\* or the audio) or a logged exception.
C30_DeliveredOrLogged ==
    (last.item # 0) => (last.sent > 0 \/ last.voice \/ last.logged)
C30_Witness ==
    /\ last.item = 1
    /\ last.result = "empty"
    /\ last.sent = 0
    /\ ~last.voice
    /\ last.logged
    /\ acked[1] = 1


(***************************************************************************)
(* The users row and the rows that reference it (database.py).  history,   *)
(* favorites and user_subscriptions declare                                 *)
(* FOREIGN KEY (user_id) REFERENCES users(user_id) ON DELETE CASCADE; the   *)
(* SQLite connection runs PRAGMA foreign_keys = ON.                         *)
(***************************************************************************)
FavoriteTexts == {"f1", "f2"}

ProfileRet(op, u) == [op |-> op, user |-> u]

\* the rows of user_subscriptions that reference another user
SubsOfOthers(u) ==
    [s \in {x \in DOMAIN user_subscriptions : user_subscriptions[x].user_id # u}
        |-> user_subscriptions[s]]

\* 'INSERT OR REPLACE INTO users (user_id, dialect)': a conflicting row is
\* deleted before the new one is inserted, and the delete cascades
ReplaceCascade(u) ==
    IF u \in DOMAIN users
    THEN /\ history' = [history EXCEPT ![u] = 0]
         /\ favorites' = [favorites EXCEPT ![u] = {}]
         /\ user_subscriptions' = SubsOfOthers(u)
    ELSE UNCHANGED <<history, favorites, user_subscriptions>>

\* Database.update_user_dialect: PostgreSQL updates the dialect column of an
\* existing row; SQLite replaces the row, whose other columns take their
\* defaults
update_user_dialect(u, d) ==
    /\ IF is_pg
       THEN /\ users' = IF u \in DOMAIN users
                        THEN [users EXCEPT ![u].dialect = d]
                        ELSE Put(users, u, [DefaultUser EXCEPT !.dialect = d])
            /\ UNCHANGED <<history, favorites, user_subscriptions>>
       ELSE /\ users' = Put(users, u, [DefaultUser EXCEPT !.dialect = d])
            /\ ReplaceCascade(u)
    /\ pf_ret' = ProfileRet("dialect", u)
    /\ UNCHANGED <<cfgVars, wkVars, qVars, hVars, ttVars, rlVars, ccVars, cache, verified,
                   admin_users, sub_seq, today, ac_ret>>

\* Database.get_user: the first contact inserts the row with its defaults
get_user(u) ==
    /\ users' = IF u \in DOMAIN users THEN users ELSE Put(users, u, DefaultUser)
    /\ pf_ret' = ProfileRet("get_user", u)
    /\ UNCHANGED <<cfgVars, wkVars, qVars, hVars, ttVars, rlVars, acVars, ccVars, history, cache,
                   verified, favorites>>

\* Database.add_history for a user whose row exists
add_history(u) ==
    /\ u \in DOMAIN users
    /\ history[u] < MaxHistory
    /\ history' = [history EXCEPT ![u] = @ + 1]
    /\ pf_ret' = ProfileRet("add_history", u)
    /\ UNCHANGED <<cfgVars, wkVars, qVars, hVars, ttVars, rlVars, acVars, ccVars, users, cache,
                   verified, favorites>>

\* Database.add_favorite: a text already saved is not saved again
add_favorite(u, text) ==
    /\ u \in DOMAIN users
    /\ favorites' = [favorites EXCEPT ![u] = @ \cup {text}]
    /\ pf_ret' = ProfileRet("add_favorite", u)
    /\ UNCHANGED <<cfgVars, wkVars, qVars, hVars, ttVars, rlVars, acVars, ccVars, users, history,
                   cache, verified>>

\* The store of a running bot: user 1 is unknown or known, with or without
\* a subscription granted earlier.
InitProfile ==
    /\ nkeys = 1 /\ groq = TRUE
    /\ is_pg \in BOOLEAN
    /\ users \in {EmptyTable, Row("standard", TRUE), Row("oran", FALSE)}
    /\ history = Hist(0)
    /\ cache = EmptyTable
    /\ verified = EmptyTable
    /\ TTInit
    /\ RLIdle
    /\ CacheIdle
    /\ QueueIdle
    /\ ProfileIdle
    /\ WorkersIdle
    /\ admin_users = {}
    /\ user_subscriptions \in
          {EmptyTable} \cup
          (IF 1 \in DOMAIN users
           THEN {Put(EmptyTable, 1, [user_id |-> 1, package_id |-> 2, end_date |-> NoEnd,
                                     is_active |-> TRUE])}
           ELSE {})
    /\ sub_seq = Cardinality(DOMAIN user_subscriptions)
    /\ today = 0
    /\ ac_ret = NoAccessRet
    /\ max_requests = 1 /\ window_minutes = 1

FirstContact == \E u \in Users : get_user(u)
SetDialect == \E u \in Users, d \in Dialects : update_user_dialect(u, d)
SaveHistory == \E u \in Users : add_history(u)
SaveFavorite == \E u \in Users, text \in FavoriteTexts : add_favorite(u, text)

NextProfile ==
    \/ FirstContact
    \/ SetDialect
    \/ SaveHistory
    \/ SaveFavorite

SpecProfile == InitProfile /\ [][NextProfile]_vars

\* every profile operation records itself, so a step that ends with this
\* record is a step of update_user_dialect
DialectStep(u) == pf_ret' = ProfileRet("dialect", u)

\* C31: a users row is never removed, and a dialect change leaves the
\* user's context-mode flag, history rows, favorites and subscription rows
\* as they were.
C31_DialectChangesOnlyDialect ==
    [][ /\ DOMAIN users \subseteq DOMAIN users'
        /\ \A u \in Users :
              DialectStep(u) =>
                  /\ (u \in DOMAIN users) =>
                        users'[u].context_mode = users[u].context_mode
                  /\ history' = history
                  /\ favorites' = favorites
                  /\ user_subscriptions' = user_subscriptions ]_vars


(***************************************************************************)
(* /whitelist (handlers.py, whitelist_command), run by an admin.           *)
(***************************************************************************)
\* /whitelist remove <user_id>: the branch calls
\* db.add_admin(target_user_id, username=None, can_grant_access=False), the
\* same upsert as "add" with another flag, and replies nothing
whitelist_remove(u) ==
    /\ admin_users # {}
    /\ \E ok \in BOOLEAN :
         /\ admin_users' = IF ok THEN admin_users \cup {u} ELSE admin_users
         /\ ac_ret' = AccessRet("whitelist_remove", u, ok)
    /\ UNCHANGED <<cfgVars, wkVars, pfVars, qVars, hVars, dbVars, ttVars, rlVars, ccVars,
                   user_subscriptions, sub_seq, today>>

WhitelistRemove == \E u \in Accounts : whitelist_remove(u)

NextWhitelist ==
    \/ AccessCheck
    \/ WhitelistAdd
    \/ WhitelistRemove
    \/ Setup

SpecWhitelist == InitAccess /\ [][NextWhitelist]_vars

RemoveStep(u) ==
    /\ ac_ret' = AccessRet("whitelist_remove", u, TRUE)
    /\ (ac_ret # ac_ret' \/ admin_users' # admin_users)

\* C32: after /whitelist remove for a user, that user is not in the admin
\* set, the access check does not answer admin for them, and nobody who was
\* outside the admin set is inside it.
C32_WhitelistRemove ==
    [][ \A u \in Accounts :
          RemoveStep(u) =>
              /\ u \notin admin_users'
              /\ <<TRUE, "admin">> \notin is_user_allowed(u)'
              /\ admin_users' \subseteq admin_users ]_vars


(***************************************************************************)
(* TranslationQueue.start_worker and stop_worker called by any caller, in  *)
(* any order (services.py).  Every start_worker call that finds processing *)
(* False makes a task that runs process_queue; the work on one item is one *)
(* step here.                                                              *)
(***************************************************************************)
\* if not self.processing: processing = True; worker_task = create_task(...)
StartCall ==
    /\ IF ~processing
       THEN /\ created < MaxTasks
            /\ processing' = TRUE
            /\ worker_task' = "task"
            /\ created' = created + 1
            /\ loops' = [loops EXCEPT ![created + 1] = "start"]
       ELSE UNCHANGED <<processing, worker_task, created, loops>>
    /\ UNCHANGED <<cfgVars, pfVars, hVars, dbVars, ttVars, rlVars, acVars, ccVars,
                   queue, puts, w_pc, w_item, w_result, stats, resolved, acked,
                   last, run_pc, awaiting>>

\* processing = False; if self.worker_task: await self.worker_task
StopCall ==
    /\ processing' = FALSE
    /\ awaiting' = IF worker_task # "none" THEN awaiting \cup {created} ELSE awaiting
    /\ UNCHANGED <<cfgVars, pfVars, hVars, dbVars, ttVars, rlVars, acVars, ccVars,
                   queue, puts, worker_task, w_pc, w_item, w_result, stats,
                   resolved, acked, last, run_pc, loops, created>>

\* the awaited task is done: that stop_worker call returns
StopReturns ==
    \E t \in awaiting :
        /\ loops[t] = "exited"
        /\ awaiting' = awaiting \ {t}
        /\ UNCHANGED <<cfgVars, pfVars, hVars, dbVars, ttVars, rlVars, acVars, ccVars,
                       qVars, loops, created>>

LoopFrame ==
    UNCHANGED <<cfgVars, pfVars, hVars, dbVars, ttVars, rlVars, acVars, ccVars,
                processing, worker_task, w_pc, w_item, w_result, stats, resolved,
                acked, last, run_pc, created, awaiting>>

\* the first run of a task: while self.processing
L_Begin(t) ==
    /\ loops[t] = "start"
    /\ loops' = [loops EXCEPT ![t] = LoopTop]
    /\ UNCHANGED <<queue, puts>>
    /\ LoopFrame

\* asyncio.TimeoutError: continue
L_Timeout(t) ==
    /\ loops[t] = "wait"
    /\ TimedOut
    /\ loops' = [loops EXCEPT ![t] = LoopTop]
    /\ UNCHANGED <<queue, puts>>
    /\ LoopFrame

\* task = await ...queue.get()
L_Get(t) ==
    /\ loops[t] = "wait"
    /\ queue # <<>>
    /\ queue' = GetLeaves(queue)
    /\ loops' = [loops EXCEPT ![t] = "item"]
    /\ UNCHANGED puts
    /\ LoopFrame

\* the item is translated and sent, task_done(): back to the loop test
L_Done(t) ==
    /\ loops[t] = "item"
    /\ loops' = [loops EXCEPT ![t] = LoopTop]
    /\ UNCHANGED <<queue, puts>>
    /\ LoopFrame

\* add_translation: await self.queue.put(...)
WK_Put ==
    /\ puts < MaxItems
    /\ puts' = puts + 1
    /\ queue' = Append(queue, puts + 1)
    /\ UNCHANGED loops
    /\ LoopFrame

InitWorkers ==
    /\ nkeys = 1 /\ groq = TRUE /\ is_pg = FALSE
    /\ users = UserRows(Accounts)
    /\ history = Hist(0)
    /\ cache = EmptyTable
    /\ verified = EmptyTable
    /\ TTInit
    /\ RLIdle
    /\ AccessIdle
    /\ CacheIdle
    /\ QueueIdle
    /\ ProfileIdle
    /\ WorkersIdle
    /\ max_requests = 1 /\ window_minutes = 1

Loop == \E t \in Tasks : L_Begin(t) \/ L_Timeout(t) \/ L_Get(t) \/ L_Done(t)

NextWorkers ==
    \/ StartCall
    \/ StopCall
    \/ StopReturns
    \/ Loop
    \/ WK_Put

SpecWorkers == InitWorkers /\ [][NextWorkers]_vars

\* the tasks whose process_queue loop has not returned
Running == {t \in Tasks : loops[t] \in {"start", "wait", "item"}}

\* C33: at most one worker task consumes the queue at any time, whatever
\* the order of the start_worker and stop_worker calls.
C33_OneWorker == Cardinality(Running) <= 1


\* task_done() calls made so far, over all items
RECURSIVE AckedUpTo(_)
AckedUpTo(n) == IF n = 0 THEN 0 ELSE acked[n] + AckedUpTo(n - 1)
AckedTotal == AckedUpTo(MaxItems)

\* C34: between items processed + failed is the number of acknowledged
\* items; the step that acknowledges an item whose resolution returned
\* (a text, nothing, or the failure string; delivered or not) adds one to
\* processed and nothing to failed; the item whose resolution raised was
\* counted in failed by the raise, once, and is not counted again; failed
\* and processed change in no other step.
C34_QueueAccounting ==
    /\ [](w_item = 0 => stats.processed + stats.failed = AckedTotal)
    /\ [][ /\ (SendStep /\ acked' # acked) =>
                 IF w_result = "error"
                 THEN stats'.processed = stats.processed /\ stats'.failed = stats.failed
                 ELSE stats'.processed = stats.processed + 1
                      /\ stats'.failed = stats.failed
           /\ (stats'.failed # stats.failed) =>
                 /\ w_pc \in {"resolve", "groq"}
                 /\ w_result' = "error"
                 /\ stats'.failed = stats.failed + 1
                 /\ stats'.processed = stats.processed
           /\ (stats'.processed # stats.processed) =>
                 /\ SendStep /\ acked' # acked
                 /\ w_result # "error" ]_vars
C34_Witness ==
    /\ stats.failed = 1
    /\ stats.processed = 1
    /\ last.item = 2
    /\ last.result = "failure"
    /\ last.sent = 0
    /\ last.logged
    /\ acked[1] = 1 /\ acked[2] = 1
    /\ w_item = 0


\* C35: items are numbered in the order add_translation put them.  The
\* queue holds them in that order, the worker holds an item older than all
\* that wait, and an item has been passed to translate_text only when every
\* item put before it has been through send_translation_result and
\* task_done.
C35_Fifo ==
    /\ \A n, m \in 1..Len(queue) : n < m => queue[n] < queue[m]
    /\ w_item # 0 => \A n \in 1..Len(queue) : w_item < queue[n]
    /\ \A i, j \in Items :
          (i < j /\ resolved[j] >= 1) => (resolved[i] >= 1 /\ acked[i] >= 1)
C35_Witness ==
    /\ w_item = 1
    /\ w_pc = "send"
    /\ InQueue(2)
    /\ resolved[2] = 0


\* C36: under fair scheduling of the worker, an item waiting in the queue
\* while run() is serving is acknowledged, having been passed to
\* translate_text once, unless run() leaves the serving state first; and an
\* item the worker has taken is acknowledged in any case.
C36_EnqueuedIsServed ==
    \A i \in Items :
        /\ (InQueue(i) /\ run_pc = "serving")
               ~> ((acked[i] = 1 /\ resolved[i] = 1) \/ run_pc # "serving")
        /\ (w_item = i) ~> (acked[i] = 1 /\ resolved[i] = 1)
C36_Witness ==
    /\ run_pc = "serving"
    /\ processing
    /\ w_pc = "wait"
    /\ queue = <<>>
    /\ puts = 2
    /\ acked[1] = 1 /\ acked[2] = 1
    /\ stats.processed = 2


\* the last entry of the handler's trace
LastCheck(t) == t[Len(t)]

\* C37: the rate_limits table changes only in the rate check of a handler
\* run, only in the row of that run's user, and only when that check
\* admits the request; a check that answers "limited" writes nothing; and a
\* run whose access check answered "denied" ends without a rate check.
C37_DenialKeepsQuota ==
    [][ /\ (rate_limits' # rate_limits) =>
              /\ h_pc = "rate"
              /\ h_trace' = Append(h_trace, <<"admitted", h_user>>)
              /\ \A u \in DOMAIN rate_limits :
                    u # h_user => rate_limits'[u] = rate_limits[u]
        /\ (h_pc = "rate" /\ h_trace' # h_trace
              /\ LastCheck(h_trace') = <<"limited", h_user>>) =>
              rate_limits' = rate_limits
        /\ (h_pc = "access" /\ h_trace' # h_trace
              /\ LastCheck(h_trace') = <<"denied", h_user>>) =>
              /\ h_pc' = "idle"
              /\ rate_limits' = rate_limits ]_vars
\* the first run of user 2 was admitted, the second was limited and left
\* the row as it was
C37_Witness ==
    /\ h_runs = 2
    /\ h_pc = "idle"
    /\ h_trace = << <<"allowed", 2>>, <<"limited", 2>> >>
    /\ rate_limits[2].request_count = 1


(***************************************************************************)
(* check_rate_limit for one user whose tier changes between calls: the     *)
(* handler passes limits['limit'] of the tier the user has at that call.   *)
(***************************************************************************)
\* one update handler at a time asks for user 1
CheckOne ==
    /\ \A d \in Callers : rl_pc[d] = "idle"
    /\ RL_Read(1, 1)

\* grant_access or revoke_access between two requests: get_user_limits
\* returns another limit and window
TierChange ==
    /\ \A d \in Callers : rl_pc[d] = "idle"
    /\ \E m \in 1..MaxLimit, w \in 1..MaxWindow :
         /\ <<m, w>> # <<max_requests, window_minutes>>
         /\ max_requests' = m
         /\ window_minutes' = w
    /\ UNCHANGED <<cfgVars, wkVars, pfVars, qVars, hVars, acVars, ccVars, dbVars, ttVars,
                   rate_limits, now, rl_pc, rl_user, rl_row, rl_now, rl_ret,
                   admitted, checks>>

NextRateTier ==
    \/ CheckOne
    \/ Finish
    \/ Tick
    \/ TierChange

SpecRateTier == InitRate /\ [][NextRateTier]_vars

\* C39: a call that allows the request returns remaining = max_requests
\* minus the request_count it stored, and that is not negative; every call
\* returns minutes_to_reset between 1 and window_minutes.
C39_ConsistentReturn ==
    [][ \A c \in Callers :
          Completes(c) =>
              /\ rl_ret'[c].via # "raise"
              /\ rl_ret'[c].allowed =>
                    /\ rl_ret'[c].remaining =
                         max_requests - rate_limits'[rl_user[c]].request_count
                    /\ rl_ret'[c].remaining >= 0
              /\ rl_ret'[c].minutes >= 1
              /\ rl_ret'[c].minutes <= window_minutes ]_vars
\* the limit went down from 2 to 1 with two requests counted: the next call
\* is denied; and it went up again: the call after is allowed with 0 left
C39_Witness ==
    /\ max_requests = 1
    /\ rl_pc[1] = "idle"
    /\ rl_ret[1].via = "deny"
    /\ rate_limits[1].request_count = 2


\* the step in which translate_text returns (and does not raise)
Returns == pc # "done" /\ pc' = "done" /\ result'.kind # "raise"

\* C38: the history table changes only in the step in which translate_text
\* returns a verified, cached, provider or dictionary result, by one row of
\* the calling user; a call that returns the failure string has added no
\* history row and has not called cache_translation, and the cached
\* translations are those it found.
C38_HistoryAccounting ==
    [][ /\ (history' # history) =>
              /\ Returns
              /\ result'.kind \in {"verified", "cached", "provider", "offline"}
        /\ Returns =>
              IF result'.kind = "failure"
              THEN /\ history' = history
                   /\ "write" \notin cache_io'
                   /\ TranslationsOf(cache') = TranslationsOf(cache)
              ELSE /\ result'.kind \in {"verified", "cached", "provider", "offline"}
                   /\ history' = [history EXCEPT ![t_user] = @ + 1] ]_vars
\* a provider answered, the history write after it failed, and the call
\* ended with the failure string: still no row and no cache write
C38_Witness ==
    /\ pc = "done"
    /\ result.kind = "failure"
    /\ succeeded
    /\ "write" \notin cache_io
    /\ history[t_user] = 0

=============================================================================
